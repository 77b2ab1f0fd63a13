---------------------------- MODULE EchoSession ----------------------------
(***************************************************************************)
(* What the echo service promises a client, without threads, locks or      *)
(* buffers.  A session is opened and finished once.  While it is open the  *)
(* service tells the client the messages it sent, in their order and none  *)
(* twice (some may be left out), and at most once of every other session   *)
(* that was opened.  Once the connection is lost what the client is told   *)
(* may also be nothing.  A service that is no longer orderly may tell of a *)
(* session again; all the rest stands.                                     *)
(***************************************************************************)
EXTENDS Integers, Sequences

CONSTANT Conns

VARIABLES
  life,  \* "new", then "open", possibly "lost", then "done"
  sent,  \* the number of messages the client has sent
  told,  \* what it was told: <<"echo", m>>, <<"enter", c>> or <<"nothing", 0>>
  orderly \* whether it still tells once only of every other session

vars == <<life, sent, told, orderly>>

Init ==
  /\ life = [c \in Conns |-> "new"]
  /\ sent = [c \in Conns |-> 0]
  /\ told = [c \in Conns |-> <<>>]
  /\ orderly \in BOOLEAN

Tell(c, what) ==
  /\ life[c] \in {"open", "lost"}
  /\ told' = [told EXCEPT ![c] = Append(@, what)]
  /\ UNCHANGED <<life, sent, orderly>>

Open(c) ==
  /\ life[c] = "new" /\ life' = [life EXCEPT ![c] = "open"]
  /\ UNCHANGED <<sent, told, orderly>>

Send(c) ==
  /\ life[c] # "new" /\ sent' = [sent EXCEPT ![c] = @ + 1]
  /\ UNCHANGED <<life, told, orderly>>

Echoed(c) == {m \in 1..sent[c] : \E i \in 1..Len(told[c]) : told[c][i] = <<"echo", m>>}

Echo(c, m) ==
  /\ Tell(c, <<"echo", m>>)
  /\ \A n \in Echoed(c) : n < m

Enter(c, d) ==
  /\ Tell(c, <<"enter", d>>)
  /\ life[d] # "new"
  /\ orderly => \A i \in 1..Len(told[c]) : told[c][i] # <<"enter", d>>

Nothing(c) == life[c] = "lost" /\ Tell(c, <<"nothing", 0>>)

Lose(c) ==
  /\ life[c] = "open" /\ life' = [life EXCEPT ![c] = "lost"]
  /\ UNCHANGED <<sent, told, orderly>>

\* The request is finished, or was refused before it became a session.
Finish(c) ==
  /\ life[c] # "done" /\ life' = [life EXCEPT ![c] = "done"]
  /\ UNCHANGED <<sent, told, orderly>>

\* The service loses track of whom it told.
LoseOrder == orderly /\ orderly' = FALSE /\ UNCHANGED <<life, sent, told>>

Next ==
  \/ LoseOrder
  \/ \E c \in Conns : \/ Open(c) \/ Send(c) \/ Nothing(c) \/ Lose(c) \/ Finish(c)
                      \/ \E m \in 1..sent[c] : Echo(c, m)
                      \/ \E d \in Conns : Enter(c, d)

\* [][Next]_vars, written so that a step that is a stutter is seen at once.
Spec == Init /\ [][vars' # vars => Next]_vars
=============================================================================
