\* One message that may be delivered again and one request that pastes, three
\* kinds of text, two bookings; statements, marks and the server may fail.
SPECIFICATION Spec
CONSTANTS
  m1 = m1
  p1 = p1
  b1 = b1
  b2 = b2
  t1 = t1
  c1 = c1
  c2 = c2
  s1 = s1
  NoTrip = NoTrip
  NoCode = NoCode
  NoSlot = NoSlot
  NoRow = NoRow
  NoMessage = NoMessage
  Messages <- OneMessage
  Pastes <- OnePaste
  Imports <- MailPaste
  Rows <- TwoRows
  Trips <- OneTrip
  Codes <- TwoCodes
  Slots <- OneSlot
  Texts <- AllTexts
  ContentOf <- FlightMail
  Updates <- OtherFields
  Faults = TRUE
  MaxAttempts = 2
  MaxLosses = 1
INVARIANTS TriesBounded SeenIsSettled OneBookingPerConfirmation
PROPERTIES EditsSurvive RedeliveryFindsBooking
SYMMETRY RowSymmetry
CHECK_DEADLOCK FALSE
