------------------------------- MODULE Pipes -------------------------------
(***************************************************************************)
(* The two goroutines of a phone and the channels between them, while the  *)
(* parties generate their keys.  The server's loop handles one message at  *)
(* a time and puts what a handler sends into MsgCh[Write]; the node's loop *)
(* moves messages from there to the network, and from the network, through *)
(* the unbuffered gotMsgFromNet, into MsgCh[Read].  Both MsgCh channels    *)
(* are bounded, both loops block on a full one, and handleVoteParams sends *)
(* a message to every party before it returns: two loops that wait for     *)
(* each other never move again.                                            *)
(***************************************************************************)
EXTENDS Naturals, Sequences, FiniteSets

CONSTANTS
  N,    \* the number of parties; identifiers are 1..N
  Cap   \* the buffer of each MsgCh channel (30 in newApp)

ASSUME NAssumption   == N \in Nat \ {0, 1}
ASSUME CapAssumption == Cap \in Nat \ {0}

VARIABLES
  stat,    \* s.Stat
  skInf,   \* whose shares the phone holds, its own included
  parts,   \* whose public-key parts the phone holds
  todo,    \* what the running handler has still to send
  out,     \* MsgCh[Write] of the server
  in,      \* MsgCh[Read] of the server
  hand,    \* what the node's loop is putting into MsgCh[Read], at most one
  net      \* arrived messages whose readers wait on gotMsgFromNet

uiVars   == <<stat, skInf, parts, todo>>
nodeVars == <<hand, net>>
vars == <<uiVars, out, in, nodeVars>>

Party == 1..N
NodeStat == {"Confirmed", "GotParams", "SentPki", "GotPK"}

VoteParams       == [type |-> "VoteParams", from |-> 0, to |-> 0]
PolyResult(i, j) == [type |-> "PolyResult", from |-> i, to |-> j]
PubKeyPart(i)    == [type |-> "PubKeyPart", from |-> i, to |-> 0]   \* 0: the topic

Messages == {VoteParams} \cup [type : {"PolyResult"}, from : Party, to : Party]
                         \cup [type : {"PubKeyPart"}, from : Party, to : {0}]

Init ==
  /\ stat  = [i \in Party |-> "Confirmed"]
  /\ skInf = [i \in Party |-> {}]
  /\ parts = [i \in Party |-> {}]
  /\ todo  = [i \in Party |-> <<>>]
  /\ out   = [i \in Party |-> <<>>]
  /\ in    = [i \in Party |-> <<VoteParams>>]
  /\ hand  = [i \in Party |-> {}]
  /\ net   = [i \in Party |-> {}]

-----------------------------------------------------------------------------
(* The server's loop *)

\* Shares are dealt in the order of the identifiers.
DealingSlip(i) == [k \in Party |-> PolyResult(i, k)]
Dealing(i) == [k \in 1..(N - 1) |-> PolyResult(i, IF k < i THEN k ELSE k + 1)]

HandleVoteParams(i, m) ==
  /\ m.type = "VoteParams"
  /\ IF stat[i] = "Confirmed"
     THEN /\ stat'  = [stat EXCEPT ![i] = "GotParams"]
          /\ skInf' = [skInf EXCEPT ![i] = {i}]
          /\ todo'  = [todo EXCEPT ![i] = Dealing(i)]
     ELSE UNCHANGED <<stat, skInf, todo>>
  /\ UNCHANGED parts

HandlePolyResult(i, m) ==
  /\ m.type = "PolyResult"
  /\ IF stat[i] \in {"GotParams", "Confirmed"}
     THEN /\ skInf' = [skInf EXCEPT ![i] = @ \cup {m.from}]
          /\ IF skInf'[i] = Party
             THEN /\ stat' = [stat EXCEPT ![i] = "SentPki"]
                  /\ todo' = [todo EXCEPT ![i] = <<PubKeyPart(i)>>]
             ELSE UNCHANGED <<stat, todo>>
     ELSE UNCHANGED <<skInf, stat, todo>>
  /\ UNCHANGED parts

PartStatesSlip == {"SentPki"}
PartStates     == {"SentPki", "GotParams"}

HandlePubKeyPart(i, m) ==
  /\ m.type = "PubKeyPart"
  /\ parts' = IF stat[i] \in PartStates
              THEN [parts EXCEPT ![i] = @ \cup {m.from}] ELSE parts
  /\ stat'  = IF parts'[i] = Party THEN [stat EXCEPT ![i] = "GotPK"] ELSE stat
  /\ UNCHANGED <<skInf, todo>>

\* The loop takes the next message when the last handler has returned.
Handle(i) ==
  /\ todo[i] = <<>>
  /\ in[i] # <<>>
  /\ LET m == Head(in[i])
     IN  HandleVoteParams(i, m) \/ HandlePolyResult(i, m) \/ HandlePubKeyPart(i, m)
  /\ in' = [in EXCEPT ![i] = Tail(@)]
  /\ UNCHANGED <<out, nodeVars>>

HasRoomSlip(c) == Len(c) < Cap - 1
OverfullSlip(c) == Len(c) <= Cap
HasRoom(c)     == Len(c) < Cap

\* The handler's next send, once MsgCh[Write] has room.
HandlerSends(i) ==
  /\ todo[i] # <<>>
  /\ HasRoom(out[i])
  /\ out'  = [out EXCEPT ![i] = Append(@, Head(todo[i]))]
  /\ todo' = [todo EXCEPT ![i] = Tail(@)]
  /\ UNCHANGED <<stat, skInf, parts, in, nodeVars>>

-----------------------------------------------------------------------------
(* The node's loop: one case of its select at a time *)

\* A goroutine of its own publishes the message, or sends it to one peer.
NodeSends(i) ==
  /\ hand[i] = {}
  /\ out[i] # <<>>
  /\ LET m == Head(out[i])
     IN  net' = [j \in Party |-> IF m.to \in {0, j} THEN net[j] \cup {m} ELSE net[j]]
  /\ out' = [out EXCEPT ![i] = Tail(@)]
  /\ UNCHANGED <<uiVars, in, hand>>

NodeReceivesSlip(i) ==                                \* a slip in NodeReceives
  /\ \E m \in net[i] :
       /\ hand' = [hand EXCEPT ![i] = {m}]
       /\ net'  = [net EXCEPT ![i] = @ \ {m}]
  /\ UNCHANGED <<uiVars, out, in>>
NodeReceives(i) ==
  /\ hand[i] = {}
  /\ \E m \in net[i] :
       /\ hand' = [hand EXCEPT ![i] = {m}]
       /\ net'  = [net EXCEPT ![i] = @ \ {m}]
  /\ UNCHANGED <<uiVars, out, in>>

\* node.msgCh[Write] <- m
NodeForwards(i) ==
  /\ HasRoom(in[i])
  /\ \E m \in hand[i] : in' = [in EXCEPT ![i] = Append(@, m)]
  /\ hand' = [hand EXCEPT ![i] = {}]
  /\ UNCHANGED <<uiVars, out, net>>

Next == \E i \in Party :
  Handle(i) \/ HandlerSends(i) \/ NodeSends(i) \/ NodeReceives(i) \/ NodeForwards(i)

Spec == Init /\ [][Next]_vars

-----------------------------------------------------------------------------
(* Properties *)

\* Type correctness: channels hold messages, never more than their buffers.
TypeOK ==
  /\ stat \in [Party -> NodeStat]
  /\ skInf \in [Party -> SUBSET Party] /\ parts \in [Party -> SUBSET Party]
  /\ todo \in [Party -> Seq(Messages)]
  /\ out \in [Party -> Seq(Messages)] /\ in \in [Party -> Seq(Messages)]
  /\ \A i \in Party : Len(out[i]) <= Cap /\ Len(in[i]) <= Cap
  /\ hand \in [Party -> SUBSET Messages] /\ net \in [Party -> SUBSET Messages]

\* A phone's two loops never wait for each other: the server's to put a message
\* into a full MsgCh[Write], the node's to put one into a full MsgCh[Read].
Stuck(i) == /\ todo[i] # <<>> /\ ~HasRoom(out[i])
            /\ hand[i] # {} /\ ~HasRoom(in[i])
NeverStuck == \A i \in Party : ~Stuck(i)

(***************************************************************************)
(* Why NeverStuck holds for N <= Cap: all that a phone sends until it has  *)
(* the joint key, N - 1 shares and one part, fits into MsgCh[Write].       *)
(***************************************************************************)
Budget == [Confirmed |-> 0, GotParams |-> N - 1, SentPki |-> N, GotPK |-> N]
Queued(i) == Len(out[i])
Owed(i)   == Len(todo[i])
WithinBudget == \A i \in Party : Queued(i) + Owed(i) <= Budget[stat[i]]

\* Nothing moves: the server's loop has no message to handle or no room for its
\* next, the node's has nothing to take or no room to put it.
Resting ==
  \A i \in Party :
    /\ IF todo[i] = <<>> THEN in[i] = <<>> ELSE ~HasRoom(out[i])
    /\ IF hand[i] = {} THEN out[i] = <<>> /\ net[i] = {} ELSE ~HasRoom(in[i])

\* Every phone gets the joint key: whatever the two loops and the network do
\* first, they come to rest only when all have it (server.go:392, node.go:268).
\* They do come to rest: each step moves one message one place on, and a
\* handler makes new ones only when Stat advances.
EveryoneGetsKey == Resting => \A i \in Party : stat[i] = "GotPK"

(***************************************************************************)
(* Why EveryoneGetsKey holds: no loop, and no handler that returns early,  *)
(* loses a share or a part its reader still needs (server.go:416, :446).   *)
(***************************************************************************)
Within(m, s)  == \E k \in 1..Len(s) : s[k] = m
Leaving(m, i) == Within(m, todo[i]) \/ Within(m, out[i])
Coming(m, j)  == m \in net[j] \/ m \in hand[j] \/ Within(m, in[j])

\* VoteParams comes before any share, and the node's loop takes one message.
ParamsFirst ==
  \A i \in Party :
    stat[i] = "Confirmed" => skInf[i] = {} /\ in[i] # <<>> /\ Head(in[i]) = VoteParams
OneInHand == \A i \in Party : \A m, other \in hand[i] : m = other

\* A share dealt is on its way until its reader has it.
SharesKept ==
  \A i, j \in Party :
    i # j /\ stat[i] # "Confirmed" /\ stat[j] \in {"Confirmed", "GotParams"}
      => i \in skInf[j] \/ Leaving(PolyResult(i, j), i) \/ Coming(PolyResult(i, j), j)

\* So is a part published.
PartsKept ==
  \A i, j \in Party :
    stat[i] \in {"SentPki", "GotPK"} /\ stat[j] # "GotPK"
      => i \in parts[j] \/ Leaving(PubKeyPart(i), i) \/ Coming(PubKeyPart(i), j)

\* Only who has all shares publishes a part.
Somewhere(m) == \E j \in Party : Leaving(m, j) \/ Coming(m, j)
PartsAfterShares ==
  \A i \in Party :
    Somewhere(PubKeyPart(i)) \/ (\E j \in Party : i \in parts[j]) => stat[i] \in {"SentPki", "GotPK"}

\* A phone that has all it waits for has gone on.
GoesOn ==
  \A i \in Party :
    /\ stat[i] = "GotParams" => i \in skInf[i] /\ skInf[i] # Party
    /\ stat[i] # "GotPK" => parts[i] # Party

NothingLost == /\ ParamsFirst /\ OneInHand /\ SharesKept /\ PartsKept
               /\ PartsAfterShares /\ GoesOn

=============================================================================
