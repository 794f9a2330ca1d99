--------------------------------- MODULE Hub ---------------------------------
(***************************************************************************)
(* What a room promises its connections, without channels or goroutines:   *)
(* one log of Data messages.  A member joins at most RingSize messages     *)
(* behind the end of the log, is fed the messages from there one by one in *)
(* the order of the log, and no message is published while one lags.       *)
(***************************************************************************)
EXTENDS Naturals, Sequences

CONSTANTS Conns, RingSize, MaxMsgs

VARIABLES
    log,        \* the messages published
    members,    \* connections being fed
    since,      \* since[c]: position in log where c joined
    fed         \* fed[c]: what c was given

vars == <<log, members, since, fed>>

Init ==
    /\ log = <<>>
    /\ members = {}
    /\ since = [c \in Conns |-> 1]
    /\ fed = [c \in Conns |-> <<>>]

\* Position in log of the message c is to be fed next.
NextFor(c) == since[c] + Len(fed[c])

AllCaughtUp == \A c \in members : NextFor(c) = Len(log) + 1

Publish(n) ==
    /\ AllCaughtUp
    /\ log' = Append(log, n)
    /\ UNCHANGED <<members, since, fed>>

Join(c) ==
    /\ AllCaughtUp
    /\ c \notin members /\ fed[c] = <<>>
    /\ members' = members \cup {c}
    /\ since' = [since EXCEPT ![c] =
                    IF Len(log) < RingSize THEN 1 ELSE Len(log) - RingSize + 1]
    /\ UNCHANGED <<log, fed>>

Feed(c) ==
    /\ c \in members /\ NextFor(c) <= Len(log)
    /\ fed' = [fed EXCEPT ![c] = Append(@, log[NextFor(c)])]
    /\ UNCHANGED <<log, members, since>>

Leave(c) ==
    /\ c \in members
    /\ members' = members \ {c}
    /\ UNCHANGED <<log, since, fed>>

Next ==
    \/ \E n \in 1..MaxMsgs : Publish(n)
    \/ \E c \in Conns : Join(c) \/ Feed(c) \/ Leave(c)

Spec == Init /\ [][Next]_vars

\* Everything a connection was ever given is a run of consecutive messages of
\* the log starting where it joined, also after it has left.
FedIsARunOfLog ==
    \A c \in Conns :
       /\ NextFor(c) <= Len(log) + 1
       /\ \A i \in 1..Len(fed[c]) : fed[c][i] = log[since[c] + i - 1]
=============================================================================
