------------------------------ MODULE KvStore ------------------------------
(***************************************************************************)
(* What CHRONOS promises to its clients: a key-value store whose commands  *)
(* take effect one at a time, each at some instant between the request and *)
(* the answer, and whose contents survive every restart.  A restart may    *)
(* only cut connections: their calls are dropped, applied or not.          *)
(***************************************************************************)
EXTENDS Sequences

CONSTANTS
  Clients,   \* the connections
  Commands,  \* records with the fields op, key and value
  Notices    \* the answers to the commands that do not concern the store

VARIABLES
  store,     \* the keys that are present, with their values
  call       \* what every client is waiting for

vars == <<store, call>>

None         == [st |-> "none"]
Open(cmd)    == [st |-> "open", cmd |-> cmd]
Done(answer) == [st |-> "done", answer |-> answer]

Init ==
  /\ store = <<>>
  /\ call = [c \in Clients |-> None]

Invoke(c, cmd) ==
  /\ call[c] = None
  /\ call' = [call EXCEPT ![c] = Open(cmd)]
  /\ UNCHANGED store

With(k, v)   == [x \in DOMAIN store \cup {k} |-> IF x = k THEN v ELSE store[x]]
Without(k)   == [x \in DOMAIN store \ {k} |-> store[x]]
Lookup(k)    == IF k \in DOMAIN store
                  THEN [tag |-> "VALUE", text |-> store[k]]
                  ELSE [tag |-> "NULL", text |-> <<>>]

(* The instant at which the command of client c takes effect. *)
Set(c) ==
  /\ call[c].cmd.op = "SET"
  /\ store' = With(call[c].cmd.key, call[c].cmd.value)
  /\ call' = [call EXCEPT ![c] = Done([tag |-> "OK", text |-> <<>>])]

Del(c) ==
  /\ call[c].cmd.op = "DEL"
  /\ store' = Without(call[c].cmd.key)
  /\ call' = [call EXCEPT ![c] = Done([tag |-> "OK_DELETED", text |-> <<>>])]

Get(c) ==
  /\ call[c].cmd.op = "GET"
  /\ call' = [call EXCEPT ![c] = Done(Lookup(call[c].cmd.key))]
  /\ UNCHANGED store

Other(c) ==
  /\ call[c].cmd.op \notin {"SET", "DEL", "GET"}
  /\ \E a \in Notices : call' = [call EXCEPT ![c] = Done(a)]
  /\ UNCHANGED store

Take(c) ==
  /\ call[c].st = "open"
  /\ Set(c) \/ Del(c) \/ Get(c) \/ Other(c)

Return(c) ==
  /\ call[c].st = "done"
  /\ call' = [call EXCEPT ![c] = None]
  /\ UNCHANGED store

(* The connections of the clients in S are cut. *)
Drop(S) ==
  /\ call' = [c \in Clients |-> IF c \in S THEN None ELSE call[c]]
  /\ UNCHANGED store

Next ==
  \/ \E c \in Clients, cmd \in Commands : Invoke(c, cmd)
  \/ \E c \in Clients : Take(c) \/ Return(c)
  \/ \E S \in SUBSET Clients : Drop(S)

Spec == Init /\ [][Next]_vars
=============================================================================
