------------------------------- MODULE FileStore -------------------------------
(* What the in-memory file system of src/basic/filesystem promises: a tree of    *)
(* directories and files that hold the content last written to them, on a disk   *)
(* whose capacity is counted in whole blocks.  Where a file is stored does not   *)
(* appear.  A node is named by the sequence of names that leads to it from the   *)
(* root << >>.                                                                  *)
EXTENDS Integers, SequencesExt

CONSTANTS Names,    \* valid file and directory names
          Contents  \* contents a command can write

VARIABLES store,     \* the nodes; empty before the first successful mkfs
          capacity,  \* number of blocks
          unit,      \* bytes of a block
          had_error, \* some command has failed
          out        \* answer of the last command

vars == <<store, capacity, unit, had_error, out>>

Directory == [type |-> "dir", content |-> << >>]
File(c)   == [type |-> "file", content |-> c]

NoValue == << >>

Init ==
    /\ store = << >>
    /\ capacity = 0 /\ unit = 0
    /\ had_error = FALSE
    /\ out = [op |-> "none", status |-> "ok", value |-> NoValue]

Answer(op, status, value) ==
    /\ out' = [op |-> op, status |-> status, value |-> value]
    /\ had_error' = (had_error \/ status # "ok")

(* Blocks that n bytes take; the pieces into which the files of a store are cut,  *)
(* one for each block.                                                           *)
BlocksFor(n) == IF n = 0 THEN 0 ELSE (n + unit - 1) \div unit
Pieces(s)    == UNION {{p} \X (1..BlocksFor(Len(s[p].content))) : p \in DOMAIN s}
BlocksOf(s)  == Cardinality(Pieces(s))

Files == {p \in DOMAIN store : store[p].type = "file"}
Dirs  == {p \in DOMAIN store : store[p].type = "dir"}

(* mkfs that runs out of memory has already thrown the old tree away.            *)
Format ==
    \/ /\ out'.op = "mkfs" /\ Answer("mkfs", "ok", NoValue)
       /\ capacity' \in Nat \ {0} /\ unit' \in Nat \ {0}
       /\ store' = [p \in {<< >>} |-> Directory]
    \/ /\ Answer("mkfs", "memory", NoValue)
       /\ store' = << >> /\ capacity' = 0 /\ unit' = 0

Make(d, n, op, node) ==
    /\ Append(d, n) \notin DOMAIN store
    /\ store' = [p \in DOMAIN store \cup {Append(d, n)} |->
                   IF p = Append(d, n) THEN node ELSE store[p]]
    /\ Answer(op, "ok", NoValue)
    /\ UNCHANGED <<capacity, unit>>

(* A write succeeds exactly when the new content fits beside the other files.    *)
Write(p, c) ==
    LET written == [store EXCEPT ![p] = File(c)]
    IN  /\ IF BlocksOf(written) <= capacity
           THEN store' = written /\ Answer("write", "ok", NoValue)
           ELSE store' = store /\ Answer("write", "space", NoValue)
        /\ UNCHANGED <<capacity, unit>>

Delete(p) ==
    /\ store' = [q \in DOMAIN store \ {p} |-> store[q]]
    /\ Answer("delete", "ok", NoValue)
    /\ UNCHANGED <<capacity, unit>>

Read(p) ==
    /\ out'.op = "read" /\ Answer("read", "ok", store[p].content)
    /\ UNCHANGED <<store, capacity, unit>>

Entries(d) ==
    {<<n, store[Append(d, n)].type, Len(store[Append(d, n)].content)>> :
       n \in {m \in Names : Append(d, m) \in DOMAIN store}}

List(d) ==
    /\ out'.op = "ls" /\ Answer("ls", "ok", Entries(d))
    /\ UNCHANGED <<store, capacity, unit>>

Stat ==
    /\ store # << >>
    /\ out'.op = "stat"
    /\ Answer("stat", "ok", <<capacity, BlocksOf(store), capacity - BlocksOf(store)>>)
    /\ UNCHANGED <<store, capacity, unit>>

(* A command that fails for another reason than space changes nothing.           *)
Refuse ==
    /\ out'.status \notin {"ok", "space"}
    /\ Answer(out'.op, out'.status, NoValue)
    /\ UNCHANGED <<store, capacity, unit>>

Next ==
    \/ Format
    \/ \E d \in Dirs, n \in Names :
         Make(d, n, "mkdir", Directory) \/ Make(d, n, "create", File(<< >>))
    \/ \E p \in Files : Read(p) \/ Delete(p) \/ \E c \in Contents : Write(p, c)
    \/ \E d \in Dirs : List(d)
    \/ Stat
    \/ Refuse

Spec == Init /\ [][Next]_vars
================================================================================
