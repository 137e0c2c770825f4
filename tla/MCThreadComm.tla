---------------------------- MODULE MCThreadComm ----------------------------
(* The thread transport on small worlds, for TLC. *)
EXTENDS ThreadCommProps

(* Two blocks of one byte, one of two. *)
MCBytes == {"none", "a", "b", "cc"}
MCSize == [x \in MCBytes |-> CASE x = "none" -> 0 [] x = "cc" -> 2 [] OTHER -> 1]

Barrier == [op |-> "barrier", root |-> 0, data |-> "none", room |-> 0]
Gather(x) == [op |-> "allgather", root |-> 0, data |-> x, room |-> MCSize[x] * N]
GatherV(x) == [op |-> "allgatherv", root |-> 0, data |-> x, room |-> 0]
Bcast(root, x) == [op |-> "bcast", root |-> root, data |-> x, room |-> 0]
Exchange(tag, sends, recvs) ==
    [op |-> "exchange", tag |-> tag,
     sends |-> [i \in DOMAIN sends |-> [peer |-> sends[i][1], data |-> sends[i][2]]],
     recvs |-> [i \in DOMAIN recvs |-> [peer |-> recvs[i][1], len |-> recvs[i][2]]]]

(* Two programs, on ranks 0 and 2 the one and on rank 1 the other. *)
Around(p, q) == [r \in 0..2 |-> IF r = 1 THEN q ELSE p]

(* A collective on two ranks against another one, or the same, on the third: *)
(* the headers alone must end the round, without a clock.                    *)
Clashes ==
    {Around(<<c>>, <<d>>) : c \in {Gather("a"), Bcast(0, "b")},
                            d \in {Barrier, Gather("cc"), GatherV("b"), Bcast(1, "a")}}

(* Two rounds of exchanges that share and cross tags, also with oneself; a   *)
(* tag out of range, a peer listed twice, a peer that is not there.          *)
Swaps ==
    {[r \in 0..2 |-> CASE r = 0 -> <<c, c>> [] r = 1 -> <<d, d>> [] OTHER -> <<>>] :
        c \in {Exchange(0, <<<<1, "a">>>>, <<<<1, 1>>>>), Exchange(0, <<<<1, "b">>>>, <<>>),
               Exchange(1, <<>>, <<<<0, 2>>>>), Exchange(0, <<<<1, "a">>, <<1, "b">>>>, <<>>)},
        d \in {Exchange(0, <<<<0, "b">>>>, <<<<0, 1>>>>), Exchange(2, <<>>, <<>>),
               Exchange(1, <<<<0, "cc">>, <<1, "b">>>>, <<<<1, 1>>, <<0, 2>>>>),
               Exchange(0, <<>>, <<<<1, 1>>, <<3, 1>>>>)}}

(* A halo exchange and a reduction among three ranks in a row: rank 1 has   *)
(* two neighbours, listed in opposite orders, the others one; two rounds of *)
(* the exchange under one tag, then a gather and a barrier.                 *)
Halo(x) == <<
    Exchange(0, <<<<1, x>>>>, <<<<1, 1>>>>),
    Exchange(0, <<<<0, x>>, <<2, x>>>>, <<<<2, 1>>, <<0, 1>>>>),
    Exchange(0, <<<<1, x>>>>, <<<<1, 1>>>>)>>

HaloProgram == [r \in 0..2 |-> <<Halo("a")[r + 1], Halo("b")[r + 1], Gather("a")>>]

(* A ring among three ranks and messages to oneself, under two tags, with   *)
(* collectives between: no byte crosses from one channel to the other.      *)
Ring(r, tag, x) ==
    Exchange(tag, <<<<(r + 1) % 3, x>>, <<r, x>>>>,
                  <<<<r, MCSize[x]>>, <<(r + 2) % 3, MCSize[x]>>>>)

RingProgram == [r \in 0..2 |-> <<Ring(r, 1, "a"), GatherV("cc"), Ring(r, 1, "b"), Bcast(1, "cc")>>]

(* Collectives alone, as the loops of the solver make them. *)
LoopProgram == [r \in 0..2 |-> <<Barrier, Bcast(2, "b"), Barrier>>]

Fitting == {HaloProgram, RingProgram, LoopProgram}

(* A rank that makes no call, one whose call is refused at once (a buffer of *)
(* the wrong size), and others that wait for it.                             *)
WrongRoom == [Gather("a") EXCEPT !.room = 1 + @]
Uneven == {Around(p, q) : p \in {<<Barrier>>, <<WrongRoom>>}, q \in {<<>>, <<Barrier>>, <<WrongRoom>>}}

(* Only programs that leave somebody waiting need the clock to end them. *)
MCTimed == Swaps \cup Uneven
MCPrograms == Fitting \cup Clashes \cup MCTimed
=============================================================================
