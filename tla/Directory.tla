----------------------------- MODULE Directory ------------------------------
(* What the master server promises about the list of servers, whatever its   *)
(* challenges, counts, timers and sweeps are (README.md:5-9): a server      *)
(* that announces itself is listed; one that falls silent is not listed for  *)
(* longer than a lease; and none is dropped before its time-out, except by a *)
(* ban of its host or when the directory goes down and forgets everything.   *)
EXTENDS Naturals

CONSTANTS Server,       \* who may announce itself
          Host,         \* the hosts that can be banned
          HostOf,       \* server -> its host
          Timeout,      \* how long a listed server may stay silent
          Lease         \* how long at most it stays listed

VARIABLES age,          \* listed server -> ticks since it announced itself
          banned,       \* the banned hosts
          up            \* whether the directory is running

dvars == <<age, banned, up>>

Listed == DOMAIN age

Keep(servers) == age' = [s \in servers |-> age[s]]

Init == age = [s \in {} |-> 0] /\ banned = {} /\ up = TRUE

Announce(s) ==
    /\ up
    /\ age' = [t \in Listed \cup {s} |-> IF t = s THEN 0 ELSE age[t]]
    /\ UNCHANGED <<banned, up>>

TimePasses ==
    /\ \A s \in Listed : age[s] < Lease
    /\ age' = [s \in Listed |-> age[s] + 1]
    /\ UNCHANGED <<banned, up>>

Expire ==
    /\ Keep({s \in Listed : age[s] <= Timeout})
    /\ UNCHANGED <<banned, up>>

Ban(host) ==
    /\ up
    /\ Keep({s \in Listed : HostOf[s] # host})
    /\ banned' = banned \cup {host}
    /\ UNCHANGED up

Unban(host) == up /\ banned' = banned \ {host} /\ UNCHANGED <<age, up>>

GoDown == Keep({}) /\ banned' = {} /\ up' = FALSE

ComeUp == ~up /\ up' = TRUE /\ UNCHANGED <<age, banned>>

Next ==
    \/ \E s \in Server : Announce(s)
    \/ TimePasses
    \/ Expire
    \/ \E host \in Host : Ban(host) \/ Unban(host)
    \/ GoDown
    \/ ComeUp

Spec == Init /\ [][Next]_dvars

\* The directory does not wait for ever before it expires a silent server.
FairSpec == Spec /\ WF_dvars(TimePasses) /\ WF_dvars(Expire)
=============================================================================
