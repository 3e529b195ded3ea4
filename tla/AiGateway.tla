----------------------------- MODULE AiGateway -----------------------------
(***************************************************************************)
(* The AI gateway.  A call of the manager asks the router for a provider:  *)
(* the router probes the configured ones by priority, then all registered  *)
(* ones, and takes the first that answers healthy, or the first there is.  *)
(* A call that fails is tried again from the start, up to a limit, if      *)
(* falling back is enabled.  Several calls run in one event loop, and      *)
(* another may run at each await; providers come and go meanwhile.         *)
(*                                                                         *)
(* Abstractions: requests and answers are not kept; a probe that takes     *)
(* more than a second, or raises, is one that answers unavailable.  Rate   *)
(* limiter and cache exist beside the manager, which calls neither.        *)
(***************************************************************************)
EXTENDS Service, SequencesExt

CONSTANTS
  Adapter,         \* the modules under providers/
  Enabled,         \* those with a key or a URL in the environment
  Order,           \* AI_PROVIDER_PRIORITY
  RetryLimit,      \* AI_MAX_RETRIES
  FallbackEnabled, \* AI_FALLBACK_ENABLED
  MaxCall          \* bound on the calls

ASSUME GatewayAssumption ==
  /\ Enabled \in SUBSET Adapter /\ Adapter # {} /\ IsFiniteSet(Adapter)
  /\ Order \in Seq(Adapter)
  /\ RetryLimit \in Nat /\ MaxCall \in Nat
  /\ FallbackEnabled \in BOOLEAN

(* discover_providers, once: the enabled ones, in the package's order.     *)
Registry == SetToSeq(Enabled)

(* What select_provider goes through, in order: a name of the priorities   *)
(* that is not registered is passed over, as one that is not healthy is.   *)
Probes == Order \o Registry

VARIABLES
  ghealth,  \* providers that are healthy now
  gsteady,  \* [Thread -> health has not changed since the call began]
  gpc,      \* [Thread -> next step of the call]
  gprobe,   \* [Thread -> position in Probes]
  gtried,   \* [Thread -> providers the call has been made to, in order]
  gusage,   \* [provider -> total_requests]
  gended    \* results of the calls, in order

gvars == <<ghealth, gsteady, gpc, gprobe, gtried, gusage, gended>>

GInit ==
  /\ ghealth \in SUBSET Enabled
  /\ gsteady = [t \in Thread |-> TRUE]
  /\ gpc = [t \in Thread |-> "idle"]
  /\ gprobe = [t \in Thread |-> 0]
  /\ gtried = [t \in Thread |-> <<>>]
  /\ gusage = [p \in Enabled |-> 0]
  /\ gended = <<>>

Turn(p) ==
  /\ ghealth' = IF p \in ghealth THEN ghealth \ {p} ELSE ghealth \cup {p}
  /\ gsteady' = [t \in Thread |-> FALSE]
  /\ UNCHANGED <<gpc, gprobe, gtried, gusage, gended>>

Go(t, step, at) ==
  /\ gpc' = [gpc EXCEPT ![t] = step]
  /\ gprobe' = [gprobe EXCEPT ![t] = at]

Finish(t, succeeded) ==
  /\ gended' = Append(gended, [by |-> gtried'[t], ok |-> succeeded])
  /\ Go(t, "idle", 0)

Begin(t) ==
  /\ gpc[t] = "idle"
  /\ Len(gended) + Cardinality({u \in Thread : gpc[u] # "idle"}) < MaxCall
  /\ gtried' = [gtried EXCEPT ![t] = <<>>]
  /\ gsteady' = [gsteady EXCEPT ![t] = TRUE]
  /\ IF RetryLimit = 0 \/ Enabled = {}
       THEN Finish(t, FALSE)
       ELSE Go(t, "probe", 1) /\ UNCHANGED gended
  /\ UNCHANGED <<ghealth, gusage>>

(* Mutant: the first registered provider is taken, healthy or not.         *)
SelectFirst(t) ==
  /\ gpc[t] = "probe"
  /\ LET p == Probes[gprobe[t]]
     IN  IF p \in Enabled
           THEN /\ gtried' = [gtried EXCEPT ![t] = Append(@, p)]
                /\ Go(t, "call", 0)
           ELSE Go(t, "probe", gprobe[t] + 1) /\ UNCHANGED gtried
  /\ UNCHANGED <<ghealth, gsteady, gusage, gended>>

(* One probe of select_provider.                                           *)
SelectProvider(t) ==
  /\ gpc[t] = "probe"
  /\ LET here == gprobe[t]
         Take(p) == /\ gtried' = [gtried EXCEPT ![t] = Append(@, p)]
                    /\ Go(t, "call", 0)
     IN  CASE here > Len(Probes) -> Take(Registry[1])
           [] here <= Len(Probes) /\ Probes[here] \in ghealth ->
                Take(Probes[here])
           [] OTHER -> Go(t, "probe", here + 1) /\ UNCHANGED gtried
  /\ UNCHANGED <<ghealth, gsteady, gusage, gended>>

(* _call_provider with the provider chosen, the last resort's included,    *)
(* which may answer although its probe failed: a success is counted; after *)
(* an error, which is not, the loop starts again or the error is raised.   *)
CallProvider(t) ==
  /\ gpc[t] = "call"
  /\ UNCHANGED gtried
  /\ \/ /\ gusage' = [gusage EXCEPT ![Last(gtried[t])] = @ + 1]
        /\ Finish(t, TRUE)
     \/ /\ IF FallbackEnabled /\ Len(gtried[t]) < RetryLimit
             THEN Go(t, "probe", 1) /\ UNCHANGED gended
             ELSE Finish(t, FALSE)
        /\ UNCHANGED gusage
  /\ UNCHANGED <<ghealth, gsteady>>

GNext ==
  \/ \E p \in Enabled : Turn(p)
  \/ \E t \in Thread : Begin(t) \/ SelectProvider(t) \/ CallProvider(t)

GSpec == GInit /\ [][GNext]_gvars

-----------------------------------------------------------------------------
GTypeOK ==
  /\ ghealth \subseteq Enabled
  /\ gsteady \in [Thread -> BOOLEAN]
  /\ gpc \in [Thread -> {"idle", "probe", "call"}]
  /\ gprobe \in [Thread -> 0 .. Len(Probes) + 1]
  /\ gtried \in [Thread -> Seq(Enabled)]
  /\ gusage \in [Enabled -> Nat]
  /\ gended \in Seq([by : Seq(Enabled), ok : BOOLEAN])

(* While health is steady, a call goes to the healthy provider of highest  *)
(* priority, or to one without priority if none that has it is healthy; a  *)
(* failing call is tried exactly as often as configured; and the usage     *)
(* counts what was answered, by whom, however calls overlap.               *)
CallsAreRouted ==
  /\ \A t \in Thread : gpc[t] = "call" /\ gsteady[t] /\ ghealth # {} =>
       /\ Last(gtried[t]) \in ghealth
       /\ \A i \in DOMAIN Order : Order[i] \in ghealth =>
            \E j \in 1 .. i : Order[j] = Last(gtried[t])
  /\ \A i \in DOMAIN gended : ~gended[i].ok =>
       Len(gended[i].by) = IF Enabled = {} THEN 0
                           ELSE IF FallbackEnabled \/ RetryLimit = 0
                             THEN RetryLimit ELSE 1
  /\ \A p \in Enabled :
       gusage[p] = Cardinality({i \in DOMAIN gended :
                                  gended[i].ok /\ Last(gended[i].by) = p})

(* The invariant of the gateway: calls go where they should and are        *)
(* counted.                                                                *)
GatewayHolds == GTypeOK /\ CallsAreRouted
=============================================================================
