# Verification of VoteInterface

VoteInterface lets a group of phones hold a secret vote without a server. Each
phone runs the Go library in `src/`: a libp2p node (`node/`), an application
server with a state machine (`ui/server.go`), and a threshold variant of the BFV
encryption scheme (`crypto/`). This directory holds its TLA+ models, what TLC
checks of them, and what TLAPS proves.

## 1. The system

| Part | State | Operations | What makes it correct |
|---|---|---|---|
| `ui/server.go`, recruiting | `Stat`, `currentVote.From/Topic/Parties`, `peers` | `CreateNewVote`, `SendBrief`, `ConfirmNewVote`, `RefuseNewVote`, `BeginVote`, `CancelVote`, `handleVoteBrief`, `handleVoteAccept`, `handleVoteParams` | the parties of a vote agree on who they are and on T; who refused stays out; a phone takes the parameters of the vote it is in; who confirmed takes part |
| `ui/server.go`, the round | `Stat`, `currentVote`, `currentParty` | `BeginVote`, `SendVoteDetail`, `SendVote`, `AbandonTicket`, `handleVoteParams` ... `handleVoteResult` | only the sum of one ballot per party is ever decrypted; ballots are under the joint key; every phone shows the same, correct count; the vote ends |
| `node/node.go`, the loop | `msgCh`, `gotMsgFromNet`, topics, streams | `startLoop`, `handleMessage`, `publish`, `sendToPeer`, `readMsgFromTopic`, `handleStream` | the node's loop and the server's never wait for each other |
| `node/node.go`, discovery | what is advertised in the DHT | `Join`, `Advertise`, `FindPeers`, `refreshAllPeers` | a topic is joined once; the parties find the same parties |
| `message/`, `vote/` | - | generators, JSON encoders | fields reach the handlers unchanged |
| `crypto/party`, `crypto/dbfv` | matrices of shares, `ski`, `pki`, `pk`, `cd.result` | `GenSecretShare`, `Combine`, `GenPk`, `Encrypt`, `EvalAdd`, `PartDec`, `FinaDec` | T shares interpolate a small joint secret; the public key fits it; the decryption is the sum of the tickets |
| `crypto/bfv`, encryption | - | `EncodeUint`/`scaleUp`, `EncryptFromPkNew`, `Add` | messages survive the noise of encryption and addition |
| `crypto/ring`, words | - | `MForm`, `MRed`, `BRed`, `BRedAdd`, `CRed` and their constant-time and parameter functions | a product of words reduces to the product modulo q, whatever wraps |
| `crypto/ring`, polynomials | coefficients up to a promised bound | the functions of `ring_operations.go`, the transforms of `ring_ntt.go` | lazily reduced coefficients never wrap; the result has the residues of the exact one |
| `crypto/ring`, changes of basis | residues by modulus | extender, decomposer, scalers | the residues stand for the integer the operation is about, floating point included |

How they interact:

```
 Kotlin  --calls-->  server methods --\                    /--> topic (gossip)
                                       > MsgCh[Write] --> node loop --> stream (one peer)
 server loop --> HandleMessage -------/
      ^   |
      |   `--> currentParty (party) --> dbfv --> bfv, ring
      |
      `-- MsgCh[Read] <-- node loop <-- gotMsgFromNet <-- one reader per topic and stream
```

* Two goroutines touch `server`: `startLoop`, which runs one handler at a time,
  and whatever thread Kotlin calls from. There is no lock. A call sends its
  message first and stores `Stat` afterwards (`server.go:151`, `server.go:160`, `server.go:219`); only
  `SendBrief` stores `Stat` (`server.go:102`) before it sends (`server.go:106`), but after it has
  replaced `currentVote` and joined the topic, so a handler may find a vote half made.
* Messages go to a gossip topic or, for secret shares and answers, over a stream
  of their own. `handleMessage` starts a goroutine for each, so nothing orders
  them; the code relies on sleeps (`server.go:197`, `server.go:399`).
* A handler that is not expecting a message drops it. Nothing is ever resent,
  and nothing is persisted: a phone that stops is gone.
* Every exchange is complete when as many messages as there are parties have been
  counted. There are no timeouts.
* The cryptography is sequential code. Its functions hand each other polynomials
  whose coefficients are below q, 2q, ... or just a word, and only comments say
  which: nothing checks that what one function leaves is what the next one takes.

What is hard here, then: messages that overtake each other, the unlocked store of
`Stat`, messages dropped by a state guard, messages of one vote taken in the next,
completion by counting, two bounded channels between two blocking loops,
progress that needs every single message; and, in the arithmetic, wrap-around,
bounds that grow along a chain of calls, errors of floating-point rounding, and
noise. `PROJECT.json` lists each hazard at its line, with the properties that
would notice.

## 2. The modules

| Module | Extends | Models |
|---|---|---|
| `Ballot` | - | what a vote promises: one ballot each, nobody is told anything before all have cast, everyone is told the count |
| `VoteRound` | - | one vote from "begin" to the result: the state machine of `server.go`, all eight exchanges |
| `MCVoteRound` | `VoteRound` | model values for TLC |
| `VoteRoundProofs` | `VoteRound`, `TLAPS` | proofs: types, what is decrypted, the reports, the joint key, the refinement of `Ballot` |
| `OrderlyProofs` | `VoteRoundProofs` | proofs: the order of the exchanges |
| `Recruit` | - | how votes are announced, answered and begun; several votes after or over each other |
| `MCRecruit` | `Recruit` | symmetry for TLC |
| `RecruitProofs` | `Recruit`, `TLAPS` | proofs: types, refusals, the dealers of a vote agree |
| `Pipes` | - | the channels between the server's loop and the node's |
| `PipesProofs` | `Pipes`, `TLAPS` | proofs |
| `Bits` | - | the bitwise operators of Go on natural numbers |
| `Words` | `Bits` | reductions of products of W-bit words, inverses modulo the word, powers and what they are for (`Pow`) |
| `WordsProofs` | `Words`, `TLAPS` | proofs, and the facts on modulo and on recursive functions the others use |
| `Ring` | `Words` | what `NewRing` accepts, its tables, the Chinese remainder conversions |
| `ModRing` | `Bits` | operations on polynomials over the integers modulo q |
| `RingOps` | `Ring` | the functions of `ring_operations.go` on lazily reduced polynomials; implements `ModRing` |
| `MCRingOps` | `RingOps` | a ring and initial polynomials for TLC |
| `RingOpsProofs` | `RingOps`, `WordsProofs` | proofs: the bounds, the refinement of `ModRing` |
| `Ntt` | `Words` | the six transforms of `ring_ntt.go`, round by round |
| `MCNtt` | `Ntt` | a table and inputs for TLC |
| `NttProofs` | `Ntt`, `WordsProofs` | proofs: the bounds, the transforms compute what they are for |
| `Scaling` | - | exact extension, division and scaling of integers |
| `Rns` | `Words` | the same in residues, as the code does it; implements `Scaling` |
| `MCRns` | `Rns` | moduli and integers for TLC |
| `RnsProofs` | `Rns`, `WordsProofs` | proofs: types, how far a row may be from its modulus, the refinement of `Scaling` |
| `Shares` | `Words` | the numbers of one vote: keys, ballots, their sum and its decryption |
| `MCShares` | `Shares` | random draws and ballots for TLC |

### VoteRound

Its variables are the fields of `server`, `Vote` and `Party` that a decision reads,
one function from parties to values each (`stat` is `s.Stat`, `skInf` is
`currentVote.SkInf`, and so on). Its actions are `BeginVote`, `SendVoteDetail`,
`SendVote` (`AbandonTicket` is `SendVote` of the zero ballot) and the eight
handlers of `HandleMessage`, each whole: guard, collection, completion test, what
is sent and the next state. `Ignore` is a handler's early return.

* Lists that are only ever appended to and counted are sets of senders or of
  messages. A message is taken once, so counts agree.
* A call is two steps, the send and `Return`, the store of `Stat` after it.
  `MaxCalls` is how many calls may be half done at one phone.
* The network is the set `sent` of all messages and, per phone, the set `rcvd` of
  those its loop has taken: delay, reordering and loss are all in it.
* The code keeps four pairs of events in order by sleeping or by hoping. `Races`
  says which pairs may come out of order: with `{}` the sleeps do their job, with
  all four names anything may overtake anything.
* Cryptography is symbolic. A ciphertext remembers the key it is under, a
  decryption share what it is a share of and for which set of parties its Lagrange
  coefficient was computed. `FinaDec` gives the tally if all of that fits together,
  else noise that depends on its inputs only. `Shares` has the numbers behind it.

`VoteRound` implements `Ballot` (`Election == INSTANCE Ballot WITH ...`): `cast`
is the ballot in the phone's `CipherText`, `told` the count in its report to Kotlin.

### Recruit

Starts with idle phones. Any of them may open the form of a new vote, send it,
be asked, answer, and begin what it announced. The round is one state, `InRound`,
which a phone leaves when everybody it found has dealt it a share. `Slips` says
what users and scheduler get wrong: refuse, cancel, press begin too early, send a
form after `CreateNewVote` was refused or a vote has come in, starve the goroutine of `SendBrief`, run
a handler in the middle of a call.

* A step of a call runs from one call into the node, or into a channel, to the next; between two steps the loop may
  take a message, and what a step reads is what is there by then. `SendBrief` is five of them (`calls` says which is
  due): it fills in `currentVote` (`server.go:81-91`), makes the message from it (`GenVoteBrief`), joins the topic of
  what is `currentVote` by then (`JoinVote`), counts itself and stores `Stat` (`StoreConfirmed`), and sends the message it
  made (`Announce`). With the slip "brief" the loop runs between making the message and the store of `Stat`,
  with "torn" between the topic and the message.
* Of the other calls the loop may run between the message and the store of `Stat` ("store").
* `HandleVoteParams` is two steps: the guard and the question to the DHT, and `EnterRound`, which goes on when the answer has
  come. Meanwhile the loop waits, but the user's calls run, and what they store is overwritten.
  `peers` is what is advertised at the end of the look-up.
* `FreshForm` is not in the code, which checks nothing in `SendBrief`: it says what a user
  who does not make the slip "form" looks at.
* The wait at the end of `SendBrief` is modelled as the code has it: `wg.Done` is never
  called, so the lines after `wg.Wait` run only if `Wait` comes before `Add`
  (`EarlyStart`).

### Pipes

One phone is two loops and two channels of `Cap` messages; `todo` is what the
running handler has still to send, `hand` what the node's loop has taken from the
network and not yet put into `MsgCh[Read]`. It covers the generation of the
keys, the one time a handler sends N-1 messages in one go.

### Words, Ring, RingOps and ModRing

A word has `W` bits where the code's have 64; `Wrap`, `Hi` and `Lo` are what `uint64`
arithmetic and `bits.Mul64` make of a product. `BRed` is written with the same
partial products and carries as the code.

`RingOps` has three polynomials: `a` and `b` are the operands, `c` or again `a` the
result, as the code's callers alias them. Each call is an action; `lim` keeps for every row the
exclusive bound that the comments promise of the result, and a call is made when the bounds of its
operands are those its word functions need. `WithinBounds` says that the
comments are right. The mapping into `ModRing` takes every coefficient modulo q.

### Ntt

One action is one round of butterflies, with the branches the code has for rounds with
few coefficients in a block, the lazy corrections and the last reduction. `RoundsFit` is what
the code counts on after each round. `ComputesTransform`
compares the end with the definition: evaluation at the odd powers of the root,
and its inverse.

### Rns and Scaling

Every function of `ring_basis_extension.go` and `ring_scaling.go`, the transforms in
them apart, works on the residues of one coefficient at a time, so a state is one
coefficient. The integer part that the code computes in floating point
is any integer part of a sum that is off by at most one part in `Precision`: over the product `a` of the moduli that is
`Slack(a)`. `Scaling` has the same operations on the integer; where
rounding can be off by one, it allows both.

Callers hand the divisions two kinds of rows. `Reduce` stands for those that reduce, `LeaveLazy` for those that leave
rows below twice their moduli: encryption, which divides what `InvNTTLazy` and `ReadAndAdd` leave
(`encryptor.go:216-228`), the evaluator, decryption shares and key switching. Divisions by several of
their own moduli and digits are only ever given canonical rows. `SimpleScaler` keeps the integers of its last call: `p1BI` is what is in
its buffer, the square of the product in a new one, the previous result later on.
`RowsFit` is how far above its modulus m a row may be: below
2m + n * q * m / R, for n moduli extended from and q one of the moduli. A digit
of one row, which is copied to the other moduli as it is, is the exception.

### Shares

A vote as the sequence of the calls that `server.go` makes on `currentParty`, with the
numbers: matrices of shares, `Combine`, the public key from its parts,
encryption of the ballots, `EvalAdd`, decryption shares, `FinaDec`. A step here
is taken by all parties together. It may be, because each one reads only messages
and the party's own fields; when it is taken, by whom, and with which messages, is `VoteRound`. A
polynomial is its constant coefficient, as a row of residues. The samplers are
choices in their ranges, and division by the special modulus leaves out the rounding
error that `Rns` allows for.

## 3. What is checked

| Run | Instance | Shows |
|---|---|---|
| `round_orderly` | 3 parties, nothing overtakes, fair | types; every ballot is under the joint key; no message taken is lost; nobody runs an exchange ahead; the inductive invariants; the round implements `Ballot`; every party casts and is told the count |
| `round_races` | 2 parties, 2 tickets, all four windows open | only full sums are decrypted; what a result is made from; reports agree; "correct" means counted; the inductive invariants |
| `round_unordered` | 2 parties, begin pressed twice, three windows open | states only advance |
| `recruit_any` | 2 phones, 2 votes, every slip but "late" and "torn" | who refused never deals; the inductive invariant; types |
| `recruit_live` | 3 phones, 2 votes, refusals, fair | dealers agree on parties and T; parameters are the vote's own; counts match; who confirmed deals; the inductive invariant |
| `pipes_pair` | 3 parties, channels of 2 | no mutual wait; no share or part is lost; the loops come to rest only with the joint key; the inductive invariant; types |
| `ring_ops` | 2 moduli, 16 coefficients, 11-bit words, any 2 calls | coefficients stay below the promised bounds; residues are those of the exact operation; types |
| `ntt_rounds` | 32 coefficients, 12-bit words, 6 transforms | no round wraps; the exact transforms end reduced; the result is the transform |
| `rns_integers` | 3 and 2 moduli, 8-bit words, canonical and lazily reduced rows | residues stand for the integer of the exact operation; rows stay near their moduli; types |
| `shares` | 3 parties, threshold 2, 9-bit words | the joint key is shared and small; the public key fits it; the decryption is the sum of the tickets |

Two runs look for a disagreement between the code and what it says of itself and
find it; `PROJECT.json` quotes the lines.

| Run | The code |
|---|---|
| `round_share` | accepts a secret share before the parameters and dereferences a nil `currentParty` |
| `round_threshold` | waits for the decryption shares of all parties, where T are said to be enough |

Met while modelling, in the models where they have the code, and not given a run of their own:

* With the window "detail" open, a phone accepts the candidates in `SentPki` and then drops
  the missing public-key parts: its ballot leaves under a key only its voter knows
  (`Races = {"detail"}` violates `BallotsUnderJointKey`).
* Refusals are counted as parties (`server.go:172`), so that T can exceed the number of voters.
* `CreateNewVote` logs that a second vote cannot be started while one is held (`server.go:74`,
  "当前网络已经有投票在进行,无法发起新投票") and returns, but its caller is not told, and `SendBrief` does not look at
  `Stat`: a form that was opened before another vote came in, or in spite of the message, overwrites
  that vote and announces its own (slip "form").
* While `SendBrief` joins its topic `Stat` is still `Inited`, so `handleVoteBrief` may put another vote into
  `currentVote`. The phone then stores `Confirmed` for a vote it has not answered, and announces its own. It has joined the other vote's
  topic if the brief came before the `Join`, and is in a vote whose topic it has not joined if it came after (slip "brief", which
  `recruit_any` allows; with it `NoMismatch`, which is stated without it, fails).
* If the other vote comes in even before the message is made (`server.go:91-95`), that message announces
  the other vote, which goes out a second time and asks again who has refused it. With the slip "torn", two phones suffice to
  violate `RefuserStaysOut`; it holds with all the others.
* `handleVoteParams` stores `Stat` after its look-up whatever has been stored meanwhile (`server.go:364-387`): a user who
  cancels during the look-up is in the round all the same.
* `handleVoteParams` never compares topics: a second `VoteParams` of a finished vote is taken
  for the next one (`Slips = {}`, `MaxBegins = 2` violates `OwnParams`).
* A party that finds another number of parties than the starter's goes on with its own,
  where the comment at `server.go:371` says the program exits.
* `wg.Done` is never called, so the deadline of a vote does not begin it
  (`server.go:116`); and when `Wait` overtakes `Add` the vote begins at once with
  T = N/2 instead of N/2 + 1 (`server.go:135`, `server.go:172`).
* With more parties than a channel has places, `NeverStuck` fails (three parties,
  `Cap = 1`); with the real 30 places it takes at least 32 parties.
* `EvalAdd` adds to `cd.result`, so a second call would double the sum; `handleCipherText` makes
  one. `rand.Seed(45)` gives every party the same source for its shares.
* The noise of the joint key grows with 2^N, which limits how many voters the parameters carry.
* `ModUpSplitQP` and `ModDownSplitQP` extend a polynomial that has lost rows
  with the tables of the full basis; every caller has all the rows (`ExtendedLevels`).
* The divisions by P divide to the floor, where the comments on `ModDownNTTPQ`, `ModDownSplitNTTPQ`, `ModDownPQ` and
  `ModDownSplitPQ` promise "a rounded integer division" (`ring_basis_extension.go:165`, `224`, `279`, `326`); the one on
  `ModDownSplitQP` (`372`) says "floored". `Scaling` divides to the floor.
* `PolyToBigintNoAlloc` adds the residues onto what the caller's integers hold (`ring.go:459`). `SimpleScaler` sets its
  integers once, to the square of Q (`ring_scaling.go:199-202`), and leaves its result in them, at most t: from
  the second call on, the integer it scales is larger by the previous result (`SimpleScale`). Against Q that is
  little, and no caller makes a `SimpleScaler`.
* `DivFloorByLastModulusNTT` subtracts a row that is only lazily reduced, so it
  divides to the floor or one less; `SimpleScaler` can return t for 0. Both are in `Scaling`. Nothing
  calls the first.
* `multSum` says that it returns values in [0, 2q - 1] (`ring_basis_extension.go:691`). The sum is reduced once at
  its end, so it may be up to n * q / R moduli more; with the moduli the parameters
  have that is below 2q + q/8 per modulus extended from, still far from a word.
* `NTTLazy` leaves coefficients of up to 6q where its comments say
  2q - 1 (`ring_ntt.go:39`); the transforms with Barrett products use the tables in Montgomery form.
* `MulByPow2` gives a wrong result unless it works in place (`ring_operations.go:1298`);
  `AddScalar`, `SubScalar`, their big-integer forms and `Rotate` write into the operand instead of
  the result; `Exp` returns its operand; `MulCoeffsMontgomeryMy` ignores its scalar. `Neg` and
  `MultByMonomial` give q for 0. `Equal` reduces what it compares.
* `setParameters` asks for N of at least 16, its error says 8. `PreviousNTTPrime` wraps below
  the smallest prime.

### Bounds, and why they are enough

* Two parties are the fewest with an exchange, three the fewest where a set of T
  parties is not everybody and where two messages of different senders can both
  be late. The protocol treats parties other than the starter alike.
* One or two tickets: the count is per ticket, and tickets never interact. A run in
  which the count matters has two. In `round_orderly` each user has decided beforehand,
  and one of them abstains (`DecidedSpec`), because
  which ballot is cast does not affect who waits for whom.
* `MaxBriefs = 2`: two votes are the fewest that can overlap or follow each other.
  In `recruit_live` the form is opened twice in all (`MaxForms`), in `recruit_any` as often as there is a vote left to announce:
  without the slip "form" a form that is overtaken by a vote does nothing any more.
  `MaxBegins = 2` where a repeated begin matters. `MaxEarly = 1`: one vote that starts itself
  is enough for its parameters to meet another one's; the theorems are for any number.
* `Veterans` has one party whose `currentParty` is left from an earlier vote, the
  others start with nil.
* `Cap = 2` for a channel of 30 makes full channels common; the theorem is
  for every capacity.
* Words are small and moduli as near to the top as they may be: the code asks for 61 bits of
  64, so 8q is at most R. The proofs are for every `W`.
* 16 coefficients are the fewest `NewRing` accepts, 32 the fewest for which a transform
  passes every branch on the size of a block.
* Two calls of `RingOps` are the fewest that show a bound of one to be the assumption of
  the next; a longer chain is a chain of pairs, each starting from polynomials at their bound
  (`Start` has some below q, 2q, 3q and just a word).
* Three and two moduli: the fewest where "all but the last" is not a single row. The integers are
  all of the small basis and the edges of the large one.
* N = 3, t = 2 is the smallest threshold that is neither one nor all.
* Runs do not check for deadlock: a vote that is over, all phones refusing, a finished
  computation and a bound on calls stop, and so does the program until a user acts.
* `ConfirmedTakesPart` is about one phone of three: nothing in the model tells them apart.
* `Precision = 20` in `rns_integers` makes misread integers common; the code's sums are good for 2^10
  and far more, see section 4.

### Fairness

`Fairness` of `VoteRound` (in `DecidedSpec` of `MCVoteRound`) and `FairSpec` of `Recruit` assume that the loop goroutine is never
stopped, that every message sent arrives (weak fairness of `Loop`, so there is no
loss), that calls return, and that users act: the starter begins and sends the
candidates, everybody votes or abstains. The first two hold of the program on
a working network; the last is an assumption about people, and the code has no timeout
that would replace it. `Pipes` needs none: every step consumes something, so it comes
to rest, and `EveryoneGetsKey` says where.

## 4. What is proved

| Theorem | For every | Statement |
|---|---|---|
| `VoteRoundProofs!TypeCorrect` | party set, windows, overlap | `Spec => []TypeOK` |
| `VoteRoundProofs!SecretBallots`, `FullSums` | party set, windows | one call at a time implies `Spec => []FullSumOnly`, `[]FullSumInv` |
| `VoteRoundProofs!ResultsHold` | party set, windows | one call at a time implies `Spec => []ResultInv` |
| `VoteRoundProofs!ReportsAlwaysAgree`, `CorrectIsCounted` | party set, windows | one call at a time implies `Spec => []ReportsAgree`, `[]CorrectMeansCounted` |
| `VoteRoundProofs!KeyInvariant`, `JointKey` | party set, all windows but "detail" | `Spec => []KeyInv`, `[]BallotsUnderJointKey` |
| `VoteRoundProofs!RoundIsBallot` | party set, all windows but "detail" | one call at a time implies `Spec => ImplementsBallot` |
| `OrderlyProofs!NeverBackward` | party set, all windows but "store" | one call at a time implies `Spec => OnlyForward` |
| `OrderlyProofs!OrderInvariant`, `NothingIsLost`, `InLockstep` | party set | no window, one call at a time implies `Spec => []OrderInv`, `[]NothingLost`, `[]Lockstep` |
| `RecruitProofs!RecruitTyped` | phones, slips, votes | `Spec => []TypeOK` |
| `RecruitProofs!RefusalsRemembered`, `RefusalsHold` | phones, votes, all slips but "torn" | `Spec => []RefusalInv`, `[]RefuserStaysOut` |
| `RecruitProofs!DealersInvariant`, `ParamsAreOfTheVote`, `DealersAgree`, `CountsMatch` | phones, votes | no slip but "refuse" and "store" and one begin per vote imply `Spec => []DealersInv`, `[]OwnParams`, `[]SameViews`, `[]NoMismatch` |
| `PipesProofs!ChannelsTyped` | parties, capacity | `Spec => []TypeOK` |
| `PipesProofs!BudgetKept` | parties, capacity | `Spec => []WithinBudget` |
| `PipesProofs!RoomForAll` | `N <= Cap` | `Spec => []NeverStuck` |
| `PipesProofs!NoMessageLost` | parties, capacity | `Spec => []NothingLost` |
| `PipesProofs!AllGetKey` | `N <= Cap` | `Spec => []EveryoneGetsKey` |
| `WordsProofs!MontgomeryProduct` | word size, modulus with 2q at most R and an inverse modulo R, x * y below q * R | `(MRed(x, y) * R) % q = (x * y) % q`, and `MRed` is below q |
| `WordsProofs!BarrettReduction`, `BarrettProduct` | word size, modulus with 2q at most R | `BRedAdd(x) = x % q`, `BRed(x, y) = (x * y) % q` for all words |
| `WordsProofs!MontgomeryInverse` | word size, odd modulus | `(q * MRedParams(q)) % R = 1 % R` |
| `WordsProofs!ToMontgomery`, `FromMontgomery` | word size, modulus with 2q at most R (an inverse modulo R) | `MForm(a) = (a * R) % q`; `(InvMForm(a) * R) % q = a % q`, and `InvMForm` is below q |
| `WordsProofs!Exponentiation`, `MontgomeryExponentiation` | the same, exponents of a word | `ModExp(x, e)` is x to the e modulo q; `modexpMontgomery` makes it in Montgomery form |
| `RingOpsProofs!StaysWithinBounds` | moduli, degree, initial polynomials, arguments, number of calls | `Spec => [](TypeOK /\ WithinBounds)` |
| `RingOpsProofs!RingTyped` | the same | `Spec => []TypeOK` |
| `RingOpsProofs!ImplementsTheRing` | the same | `Spec => ImplementsRing` |
| `RnsProofs!RowsStayNear`, `RowsTyped` | moduli, plaintext moduli, floating-point precision | `Spec => [](TypeOK /\ RowsFit)`, `[]TypeOK` |
| `RnsProofs!ResiduesDetermine` | moduli whose cofactors have inverses | integers congruent modulo each are congruent modulo the product |
| `RnsProofs!ExtensionIs` | bases, rows, precision, moduli that fit | the extended rows are residues of the integer behind the rows, which an error may misread by one product of the moduli, and below four times their modulus |
| `RnsProofs!MovesTheInteger` | moduli that fit (`ModuliFit`), full level | `Spec => ImplementsScaling` |
| `NttProofs!NoOverflow` | degree, table, modulus, inputs | `Spec => []RoundsFit` |
| `NttProofs!CanonicalEnd` | the same | `Spec => []EndsReduced` |
| `NttProofs!TransformIsRight` | the same | `Spec => []ComputesTransform` |

**SecretBallots.** A phone only counts the ballots it was sent, so a full count is a
full sum only if nobody sends two. `FullSumInv` says why nobody does:
a phone that has sent a ballot is past `GotDetail`, or the call that sent it has yet to
store `Stat`, and a call under way keeps the next one out (`VotesOnce`). The
late store can take `Stat` back, but never before `Voted`. With one ballot each, as
many ballots as parties are one of each party, by cardinality of finite sets. With
`MaxCalls = 2`, two calls that overlap send two ballots: hence the hypothesis.

**ReportsAlwaysAgree, CorrectIsCounted.** A result is made from the shares of
all the parties, one each (`ResultInv`), and a sum from one ballot each, so any two
phones decrypt the same sum with the same shares: what they get is the same, be it
the count or noise. When it is a count, all shares are of the full sum.

**JointKey.** Parts of the key are published by who has been dealt every share, so
everybody has dealt by then, is past `Confirmed`, and accepts every part until it
has all of them. If the candidates come after the last part, nobody drops one (`KeyInv`).

**RoundIsBallot.** Under `FullSumInv`, `ResultInv` and `KeyInv`, a step that sends a ballot
casts it, a step that reports tells, and what it tells is the count because all ballots
are under the joint key; every other step leaves both mapped variables alone.

**NothingIsLost, InLockstep.** To send a message of one exchange a phone has to have
all messages of the one before, from everybody; so everybody has left that exchange's waiting
state and accepts the new message, and nobody is further than one exchange from anybody.
`OrderInv` says this for each exchange, one conjunct per exchange and phone.

**RefusalsHold.** A phone deals only in votes it joined; it joins a vote only by
announcing or confirming it, or by joining in `SendBrief` what has just replaced its own; and after a refusal it is
never asked about that vote again, because the brief that would ask it has been taken (`RefusedForGood`). There is
one brief per vote only if what `SendBrief` announces is what it filled in (`AnnouncesItsOwn`), hence the
hypothesis: with a handler between the two, the theorem is false. `JoinsInvited` and `AskedByAnother` also say that a topic is
never joined twice, which would make `Join` panic. The handlers may run anywhere else in a call, and the
calls anywhere in a look-up.

**DealersAgree, ParamsAreOfTheVote, CountsMatch.** When "begin" is pressed after every answer is in,
every phone has taken the vote's brief and decided, so nobody joins the vote afterwards and what
`FindPeers` finds never changes again (`Frozen`). A phone that has joined waits for the
vote's parameters or has taken them (`JoinedWaits`): it is in no other vote meanwhile, so that a `VoteParams`
it has not taken yet is its own, although the handler does not look. For the count, a vote has one
member more than answers (`Headcount`), and the starter counts each answer once, because it stays in `Confirmed`
from the brief to the parameters (`Counted`). While a phone fills in and announces a vote no handler runs
(`AnnouncesUndisturbed`), and a look-up is for the vote the phone is still in (`LooksUpOwn`). Every hypothesis is needed: with any
other slip, or a second begin, TLC finds one of the three violated.

**RoomForAll.** Until it has the joint key a phone sends N-1 shares and one part.
`WithinBudget` bounds what it has queued and still owes by that, for each state; with
N places there is always room.

**NoMessageLost, AllGetKey.** A message is in one of six places from the handler that
makes it to the handler that takes it: owed, in the writer's channel, on the network,
in the node's hand, in the reader's channel, counted. `SharesKept` and `PartsKept` follow it
through them. A share cannot be refused, because the parameters stand first in the reader's
channel (`ParamsFirst`), nor a part, because who publishes one has been dealt every share,
so that everybody has his parameters (`PartsAfterShares`). If then all loops rest and, with room,
none waits on a full channel, all those places are empty: everybody has counted every share and part.

**MontgomeryProduct, BarrettProduct.** The words are written as quotient and remainder of R. For
Montgomery, the low halves of the two products cancel and the high halves differ by an exact
quotient by R. For Barrett, the four partial products and their carries lose less than two units of the quotient,
so that one correction is enough.

**MontgomeryInverse, Exponentiation.** Both are loops over the bits of a word, which the model has as
recursive functions. `Recursion` says that such a function is the sequence of its steps, and
`Induction` that a fact its steps keep holds at the end. For the inverse, the square is congruent to 1 modulo a
power of two that doubles with each step. For the power, what has been multiplied so far is the base to
the lower bits of the exponent, and the square is the base to the next power of two; in Montgomery form each
carries one factor R, which cancels because R is a unit modulo q.

**StaysWithinBounds, ImplementsTheRing.** The inductive invariant is `TypeOK /\ WithinBounds`: every coefficient is
below the bound its last writer promised, and every bound is at most a word. There is one lemma per call.
Each shows that under the guard, which is what the word functions need, no sum wraps, no difference is negative, and
every correction subtracts what its comment says; then that the new coefficient has the residue
of the exact result. The sums of products come down to the theorems on words. `BitReverse` and `Rotate` need that reversing bits and
turning an index by a power of 2 stay within the degree, the
schoolbook products that two recursions with congruent terms stay congruent, and `Exp` the theorem above.
The bound on calls plays no part: the theorems hold for any number.

**RowsStayNear.** The inductive invariant adds `DigitBasis`: a row that may be far off is a digit's,
and then its basis still has the moduli of P. The digits are below their moduli q and the
cofactors below the target b, so their sum is below n * q * b; of it the code keeps the
high half, less a multiple of b, plus an entry of the table of multiples, which is below b. The
floating-point index into that table is at most the number of moduli, because the sum of the fractions is below that number and
the error below one. Divisions, scalings and reductions end in a product that is below its modulus, whatever lazily
reduced row they start from; the subtraction before it does not wrap. The groups of `DecomposeAndSplit` lie within
the rows, also at the last, shorter one.

**NoOverflow.** The inductive invariant is `TypeOK` with `RoundsFit`: a butterfly of
coefficients below the bound of a round, with a product below 2q, leaves them below the bound of
the next one, and the bound never reaches a word. The six transforms differ in which
bound they keep and how they correct.

**TransformIsRight.** `Eval(p, j, s)` is the value that the polynomial in the s coefficients of j's block
has at the j-th odd power of the root. A forward round halves the blocks and keeps every value (`ForwardKeeps`), because the
factor at the entry of the table is that power raised to half the size of the block (`TwiddleIs`): the butterflies replace a
polynomial by its remainders, which agree with it at the points of each half. An inverse round doubles the blocks and every value (`InverseDoubles`), so that
after LogN rounds the product by the inverse of N is due. `EvalInv` says this between the rounds, next to
the bounds of `NoOverflow`, without which a residue would be lost in a word. At its two ends a block is one coefficient, or
the whole row, whose values are those of the definition (`OneCoefficient`, `ValueAtIs`). The order of the coefficients comes out right because
reversing the bits of a block's number is what its exponents do (`PairExponents`). The transforms with Barrett products use
the Montgomery tables and do not compute this (section 3); their bounds are in the two theorems above.

**MovesTheInteger.** The integer behind the rows is `Value`, and rows stand for an integer when each is congruent
to it modulo its modulus (`StandsFor`). By `ResiduesDetermine` rows stand for one integer only, up to
the product, and the Chinese sum of the code finds it. So each action has to be shown to leave rows that stand for what `Scaling` puts
in its place; there is one lemma per action, and these facts under them:

* An extension (`ExtensionIs`). The digits spread over the cofactors are the integer plus a multiple of
  the product; that multiple is what the floating-point sum counts, and its error can change it by one only when the integer is
  within `Slack`, one part in `Precision` of the product, of an end of its range. This is the `Misread` of `Scaling`.
* A division takes away a residue of the integer, after which the inverse of the divisor in each row is an
  exact division (`QuotientIs`). Inverses are powers q - 2 (`Fermat`), which the code makes with `ModExp`.
  `DivFloorByLastModulusNTT` takes a lazily reduced remainder and can be one off; rounding moves the remainder to
  the middle first, whichever way `uncentre` takes it back; divisions by several moduli are divisions one after the other.
* A digit is an extension from its group of moduli, or a copy where the group is one.
* The scaling by t/Q in floating point splits each term into an integer part, summed in words modulo t,
  and a fraction (`ScaledSplits`). Fractions times the product are integers, so the picked integer is theirs up
  to the error; the word sums do not wrap for odd t (`PartsFit`), and wrap harmlessly for a power of two.
* The scaling over the integers adds what the scaler kept: a multiple of the product, which goes away, or its last
  result, at most t (`reconstructThenScaleMoves`).

The rows of a division may be canonical or up to 2q - 1 (`LeaveLazy`): the subtraction adds 2q first, so it does not go below zero,
and the product takes any word below 8q.

The theorem is about moduli for which `ModuliFit` holds. It does for all eight parameter sets of `bfv/params.go`: an extension
stays below four times its modulus because at most twelve moduli of at most 61 bits are summed, no modulus of Q is twice an earlier one
(the divisions take a remainder by the last modulus into the rows of the earlier ones unreduced), and a word holds the sum for the scaling.
And an extension starts from the full level (`ExtendedLevels`), as it does in the repository: below it the
tables of `ModUpSplitQP` are those of other moduli and the theorem is false.

The assumptions are the `ASSUME`s of the modules: finite party sets,
the nil values are not parties, bounds are positive, 8q is at most a word, the moduli are
distinct primes as `NewRing` checks. `Precision` is any number above one. A sum of n quotients in `float64`, each below one and rounded, is off by less than
(n*n + 3*n) / 2^53; the sum of `reconstructAndScale`, whose terms are as large as the rows, by less than
2^62 * (n*n + 2*n) / 2^80 in its 80 bits. With at most 12 moduli, as in all eight parameter sets, 2^10 fits both. The error counts against
the product of the moduli that are summed over, so it does not matter how that product compares with those of other bases. `InputsAssumption` and
`OpsAssumption` type what a computation starts from. Some are facts of arithmetic
that the provers do not know: of powers of two (`RAssumption`, `WordPowers`,
`DegreePowers`, `PowersAssumption`, and in `OpsAssumption` that N divides 2^N), that the search for a
primitive root ends and its power q - 1 is 1 (`PrimitiveRoots`), that a product of other primes is
invertible modulo a prime (`Inverses`), and that the power q - 2 inverts modulo a prime q (`Fermat`). A plaintext modulus
is none of the moduli of Q: the scaling divides by it modulo each of them. `TablesAssumption` says of the tables of a transform what
`genNTTParams` makes them: powers of a 2N-th root at the reversals of their exponents, their inverses, and the inverse of N.
TLC evaluates each of them on the instance of a run.

Model-checked only:

* Liveness (`CompletesBallot`, `ConfirmedTakesPart`), since fairness is out of the prover's reach.
* `KeyIsShared`, `PublicKeyFits` and `DecryptsSum` of `Shares`: that shares interpolate the secret is a statement about
  polynomials over a field and sums over any set of parties, which are folds over sets, and that the errors stay small
  is a bound on noise that holds for the numbers of an instance, not for all. Both need inductions over the parties and
  over the degree of a polynomial, and more algebra than the provers have.

## 5. What is assumed and what is not modelled

* The DHT is exact: `FindPeers` finds everybody who advertises, the caller
  included, alike for everyone, and nothing expires (`Advertise` has a TTL of 20
  minutes). In `VoteRound` all parties have found the same parties, so that
  `GetID`, the position in that list, is a party's identity.
* Only the starter presses begin and sends the candidates, which is what the
  interface offers; on another phone `cancelWait` is nil. `SendBrief` follows an
  opened form. A ballot has as many slots as there are candidates. There are at least two parties.
* The recipients of a message to a topic are those who had joined when it was sent.
* In `Recruit` a user makes one call at a time on a phone, except while `SendBrief` waits; a call that overlapped the first half of
  `SendBrief` could join what the user is about to refuse. Two words that one step writes are written together, and
  a step between two calls into the node is not interrupted.
* `Recruit` and `VoteRound` are not composed into one specification: the first ends where the second starts,
  and their product is out of TLC's reach.
* Of the cryptography: the samplers' distributions (only their ranges), the
  encoder's slot permutation (tickets add slot by slot, so one slot is modelled), the marshalling of keys and
  ciphertexts, the search for primes; multiplication, rotation and relinearisation of the evaluator, the decryptor with a whole
  secret key, and `dbfv`'s refresh, permute and key switching, which the application never calls.
* Not modelled at all: host construction, NAT, relays, bootstrap; JSON encoding (generated);
  logging; the local socket; `ui/handleMessage.go`, which is commented out.

## 6. Plan

The order was: the round, recruiting, the channels; then proofs of the round; then the arithmetic
from the word up to a vote in numbers. What would come next:

1. A composition of two rounds: a stale `currentParty`, a phone that cancels and is still
   waited for, messages of the first vote that arrive in the second.
2. The encoder's slots (`bfv/encoder.go`) and the lengths of marshalled keys.
3. Bounds on the noise as a function of the number of voters, for the real parameters.
4. Proofs: Lagrange interpolation over the integers modulo a prime, with the sums over sets of parties of `Shares` as
   sums over sequences; `KeyIsShared` follows from it row by row.
