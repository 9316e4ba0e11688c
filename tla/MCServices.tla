------------------------------ MODULE MCServices ------------------------------
(* An instance of the services that have no state in common: the sharing of  *)
(* a trip, the token budget, the summary of a session, the limiters, the     *)
(* analysis of bookings, the relay of a turn to its client, the streams of   *)
(* the providers, the end of the server and the caches of positions.  A      *)
(* behaviour is one of them, chosen at the start, so that the states are     *)
(* added and not multiplied.                                                 *)
EXTENDS Collaborators, TokenBudget, ChatSummary, RateLimits, BookingAnalysis, ChatRelay,
  ProviderStream, ServerShutdown, LocationCaches

VARIABLE focus

vars == <<focus, call, collaboration, budgetVars, summaryVars, limitVars, bookings, relayVars,
          providerVars, shutdownVars, cacheVars>>

MCAirports == {"FRA"}

Init ==
  /\ focus \in {"sharing", "budget", "summary", "logins", "quotas", "requests", "analysis", "relay", "provider",
               "shutdown", "positions"}
  /\ CollaboratorsInit /\ BudgetInit /\ SummaryInit /\ LimitInit /\ AnalysisInit
  /\ RelayInit /\ ProviderInit /\ ShutdownInit /\ CachesInit

OnlySharing  == UNCHANGED <<focus, budgetVars, summaryVars, limitVars, bookings, relayVars,
                            providerVars, shutdownVars, cacheVars>>
OnlyBudget   == UNCHANGED <<focus, call, collaboration, summaryVars, limitVars, bookings,
                            relayVars, providerVars, shutdownVars, cacheVars>>
OnlySummary  == UNCHANGED <<focus, call, collaboration, budgetVars, limitVars, bookings, relayVars,
                            providerVars, shutdownVars, cacheVars>>
OnlyLimits   == UNCHANGED <<focus, call, collaboration, budgetVars, summaryVars, bookings,
                            relayVars, providerVars, shutdownVars, cacheVars>>
OnlyAnalysis == UNCHANGED <<focus, call, collaboration, budgetVars, summaryVars, limitVars,
                            relayVars, providerVars, shutdownVars, cacheVars>>
OnlyRelay    == UNCHANGED <<focus, call, collaboration, budgetVars, summaryVars, limitVars,
                            bookings, providerVars, shutdownVars, cacheVars>>
OnlyProvider == UNCHANGED <<focus, call, collaboration, budgetVars, summaryVars, limitVars,
                            bookings, relayVars, shutdownVars, cacheVars>>
OnlyShutdown == UNCHANGED <<focus, call, collaboration, budgetVars, summaryVars, limitVars,
                            bookings, relayVars, providerVars, cacheVars>>
OnlyPositions == UNCHANGED <<focus, call, collaboration, budgetVars, summaryVars, limitVars,
                            bookings, relayVars, providerVars, shutdownVars>>

Next ==
  \/ focus = "sharing" /\ Sharing /\ OnlySharing
  \/ focus = "budget" /\ BudgetNext /\ OnlyBudget
  \/ focus = "summary" /\ SummaryNext /\ OnlySummary
  \/ focus = "logins" /\ AuthNext /\ OnlyLimits
  \/ focus = "quotas" /\ RestNext /\ OnlyLimits
  \/ focus = "requests" /\ BucketNext /\ OnlyLimits
  \/ focus = "analysis" /\ AnalysisNext /\ OnlyAnalysis
  \/ focus = "relay" /\ RelayNext /\ OnlyRelay
  \/ focus = "provider" /\ ProviderNext /\ OnlyProvider
  \/ focus = "shutdown" /\ ShutdownNext /\ OnlyShutdown
  \/ focus = "positions" /\ CachesNext /\ OnlyPositions

Spec == Init /\ [][Next]_vars

(* The goroutine and the handler of a request go on while they can: a tool   *)
(* and a call to the provider end, at the latest at their deadline.          *)
FairSpec ==
  /\ Spec
  /\ WF_vars(focus = "relay" /\ TurnSteps /\ OnlyRelay)
  /\ WF_vars(focus = "relay" /\ HandlerSteps /\ OnlyRelay)
  /\ WF_vars(focus = "provider" /\ (Asking \/ Parsing) /\ OnlyProvider)
  /\ WF_vars(focus = "provider" /\ Taking /\ OnlyProvider)

(* The types of the services, and the steps of a call that shares a trip.    *)
ServicesTypeOK ==
  /\ CollaboratorsTypeOK /\ pc \in [Calls -> {"idle", "inviting", "accepting"}]
  /\ BudgetTypeOK /\ SummaryTypeOK /\ LimitTypeOK /\ AnalysisTypeOK
  /\ RelayTypeOK /\ ProviderTypeOK

(* What each limit still bounds where it is checked first and charged after: *)
(* invitations by requests at once (collaborate.go:106), tokens of turns at  *)
(* once (ai/budget.go:33), a burst on both sides of a window's edge or of an *)
(* eviction (ratelimit/ratelimit.go:84); and how many messages a turn knows  *)
(* neither from the summary nor from the window (chat/summarize.go:65).      *)
BoundsHold == ServicesTypeOK /\ InvitesBounded /\ SpendBounded /\ BurstsBounded /\ ForgottenBounded

(* What is thrown away to stay small is not missed: the clean-up of the      *)
(* limiter of logins lets nobody in who is blocked or counted                *)
(* (ratelimit/authlimiter.go:125), and a full cache of positions loses none  *)
(* that is newer than one it keeps, or that a chat would still have used     *)
(* (location/cache.go:120).                                                  *)
ForgettingIsSafe == [][ForgettingIsInvisible' /\ LosesOldest]_vars

(* The goroutine of a request and that of a provider's answer end, the first *)
(* also when the handler has returned with the channel full                  *)
(* (chat/service.go:839), the second unless its reader has (ai/claude.go:71).*)
GoroutinesEnd == GoroutineEnds /\ ProviderEnds
=============================================================================
