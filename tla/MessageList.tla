---------------------------- MODULE MessageList -----------------------------
(***************************************************************************)
(* What a message queue promises its user: a list of messages, each with   *)
(* its bytes and a state.  A message is added at the end if the buffer has *)
(* room for it; when it has not, the finished messages at the front go     *)
(* first.  Nothing else removes, reorders or changes a message.            *)
(***************************************************************************)
EXTENDS Integers, Sequences, FiniteSets, SequencesExt

CONSTANTS Payloads, HeaderSize, MemSize

VARIABLES list, result      \* result: what the last call was given and returned

States == {"UNSENT", "AWAITING_ACK", "COMPLETE"}

\* A message costs its bytes and a header.
Cost(l) == FoldLeft(LAMBDA n, m : n + Len(m.bytes) + HeaderSize, 0, l)

HasRoom(l, bytes) == Cost(l) + Len(bytes) + HeaderSize <= MemSize

Cleaned(l) ==
    LET live == {i \in 1..Len(l) : l[i].state # "COMPLETE"}
    IN  IF live = {} THEN <<>> ELSE SubSeq(l, Min(live), Len(l))

ListInit == list = <<>> /\ result = [call |-> "init", bytes |-> <<>>, rv |-> 0]

ListPack(bytes) ==
    LET new  == [bytes |-> bytes, state |-> "UNSENT"]
        room == HasRoom(list, bytes) \/ HasRoom(Cleaned(list), bytes)
    IN  /\ result' = [call |-> "pack", bytes |-> bytes, rv |-> IF room THEN Len(bytes) ELSE -1]
        /\ list' = IF HasRoom(list, bytes) THEN Append(list, new)
                   ELSE IF room THEN Append(Cleaned(list), new)
                   ELSE Cleaned(list)

ListClean ==
    /\ list' = Cleaned(list)
    /\ result' = [call |-> "clean", bytes |-> <<>>, rv |-> 0]

ListMark(i, s) ==
    /\ i \in 1..Len(list)
    /\ list' = [list EXCEPT ![i].state = s]
    /\ result' = [call |-> "mark", bytes |-> <<s>>, rv |-> i]

\* The first message in state s is found and its bytes are read.
ListFind(s) ==
    LET found == {i \in 1..Len(list) : list[i].state = s}
        i     == IF found = {} THEN 0 ELSE Min(found)
    IN  /\ result' = [call |-> "find", rv |-> i,
                      bytes |-> IF i = 0 THEN <<s>> ELSE <<s>> \o list[i].bytes]
        /\ list' = list

ListNext ==
    \/ \E bytes \in Payloads : ListPack(bytes)
    \/ ListClean
    \/ \E i \in 1..Len(list), s \in States : ListMark(i, s)
    \/ \E s \in States : ListFind(s)

ListSpec == ListInit /\ [][ListNext]_<<list, result>>
=============================================================================
