------------------------------- MODULE FileSystem ------------------------------
(* The in-memory file system of src/basic/filesystem: a tree of nodes, a block   *)
(* bitmap and the data of each block, driven by one command per input line.      *)
(*                                                                             *)
(* A path is the sequence of its components between slashes: "/" is <<"">>,      *)
(* "/a/b" is <<"a", "b">>, "/a/" is <<"a", "">>, "//a" is <<"", "a">>.  A node   *)
(* is named by the names that lead to it from the root << >>, so the pointers    *)
(* parent and children are prefixes and extensions.  Messages are abstracted to  *)
(* a status per kind of failure.                                                *)
EXTENDS Integers, SequencesExt

CONSTANTS Names,     \* the components valid_name accepts
          Paths,     \* the paths commands name
          Contents,  \* the contents of write commands: nonempty sequences
          Disks,     \* the pairs <<DISK_SIZE, BLOCK_SIZE>> of mkfs commands
          MaxInt     \* the largest C int (2^31 - 1)

MinInt == -(MaxInt + 1)

ASSUME FSAssumption ==
    /\ "" \notin Names
    /\ \A path \in Paths : path \in Seq(Names \cup {""}) /\ path # << >>
    /\ \A c \in Contents : c \in Seq(Range(c)) /\ c # << >> /\ Len(c) <= MaxInt
    /\ MaxInt \in Nat
    /\ Disks \subseteq (MinInt..MaxInt) \X (MinInt..MaxInt)

VARIABLES block_size, block_count, block_used, block_data, nodes, had_error, out

disk == <<block_size, block_count, block_used, block_data>>
vars == <<disk, nodes, had_error, out>>

Blocks   == 0..block_count - 1
NoData   == << >>                       \* a NULL block_data pointer
RootPath == <<"">>
Root     == << >>
NoValue  == << >>

(* block_count counts the entries of blocks, or is negative: see RequiredBlocks.  *)
Directory == [type |-> "dir", size |-> 0, blocks |-> << >>, block_count |-> 0]
EmptyFile == [type |-> "file", size |-> 0, blocks |-> << >>, block_count |-> 0]

Init ==
    /\ block_size = 0 /\ block_count = 0
    /\ block_used = << >> /\ block_data = << >>
    /\ nodes = << >>
    /\ had_error = FALSE
    /\ out = [op |-> "none", status |-> "ok", value |-> NoValue]

(* main reports the answer and remembers failures for its exit status.           *)
Answer(op, status, value) ==
    /\ out' = [op |-> op, status |-> status, value |-> value]
    /\ had_error' = (had_error \/ status # "ok")

Refuse(op, status) ==
    /\ status # "ok"
    /\ Answer(op, status, NoValue)
    /\ UNCHANGED <<disk, nodes>>

(* An allocation may fail in any command that passes its checks.                 *)
OutOfMemory(op, status) ==
    /\ status = "ok"
    /\ Answer(op, "memory", NoValue)
    /\ UNCHANGED <<disk, nodes>>
--------------------------------------------------------------------------------
Mounted == Root \in DOMAIN nodes

(* Only valid names ever enter the tree, so that a path with an empty or invalid *)
(* component, or that goes through a file, leads nowhere.                        *)
Resolves(path) == Mounted /\ (path = RootPath \/ path \in DOMAIN nodes)
Node(path)     == IF path = RootPath THEN Root ELSE path

ParentPath(path) == IF Len(path) = 1 THEN RootPath ELSE Front(path)
Child(path)      == Append(Node(ParentPath(path)), Last(path))

HasType(path, type) == nodes[Node(path)].type = type
--------------------------------------------------------------------------------
(* mkfs destroys the old file system before it allocates the new one.            *)
Mkfs(d, b) ==
    /\ d > 0 /\ b > 0 /\ d % b = 0
    /\ \/ /\ block_size' = b
          /\ block_count' = d \div b
          /\ block_used' = [k \in 0..(d \div b) - 1 |-> FALSE]
          /\ block_data' = [k \in 0..(d \div b) - 1 |-> NoData]
          /\ nodes' = [p \in {Root} |-> Directory]
          /\ Answer("mkfs", "ok", NoValue)
       \/ /\ block_size' = 0 /\ block_count' = 0
          /\ block_used' = << >> /\ block_data' = << >>
          /\ nodes' = << >>
          /\ Answer("mkfs", "memory", NoValue)

RefuseMkfs(d, b) == ~(d > 0 /\ b > 0 /\ d % b = 0) /\ Refuse("mkfs", "size")
--------------------------------------------------------------------------------
CreateStatus(path) ==
    IF Last(path) \notin Names \/ ~Resolves(ParentPath(path)) THEN "path"
    ELSE IF ~HasType(ParentPath(path), "dir") THEN "type"
    ELSE IF Child(path) \in DOMAIN nodes THEN "exists"
    ELSE "ok"

create_child(op, path, node) ==
    \/ /\ CreateStatus(path) = "ok"
       /\ nodes' = [p \in DOMAIN nodes \cup {Child(path)} |->
                      IF p = Child(path) THEN node ELSE nodes[p]]
       /\ Answer(op, "ok", NoValue)
       /\ UNCHANGED disk
    \/ Refuse(op, CreateStatus(path))
    \/ OutOfMemory(op, CreateStatus(path))

Mkdir(path)  == create_child("mkdir", path, Directory)
Create(path) == create_child("create", path, EmptyFile)
--------------------------------------------------------------------------------
(* The value of an int sum (the build wraps around; the overflow itself is        *)
(* undefined behaviour in C), and the int division, which truncates toward 0.     *)
ToInt(n)     == ((n - MinInt) % (2 * (MaxInt + 1))) + MinInt
Divide(a, b) == IF a >= 0 THEN a \div b ELSE -((-a) \div b)

(* With a block size close to MaxInt the sum wraps, and 0 or -1 blocks are enough. *)
RequiredBlocks(n) == IF n = 0 THEN 0 ELSE Divide(ToInt(n + block_size - 1), block_size)

(* The i-th piece of a content that is cut into blocks.                          *)
Chunk_Whole(c, i) == SubSeq(c, (i - 1) * block_size + 1, Len(c))   \* mutant: no cut
Chunk(c, i) ==
    SubSeq(c, (i - 1) * block_size + 1, IF i * block_size < Len(c) THEN i * block_size
                                                                    ELSE Len(c))

FreeBlocks == {b \in Blocks : ~block_used[b]}

(* Free blocks plus the blocks the file would give back.                         *)
Available_FreeOnly(path) == Cardinality(FreeBlocks)                \* mutant
Available(path) == Cardinality(FreeBlocks) + nodes[path].block_count

(* The bitmap after release_file_blocks.                                        *)
Released_Leaks(path) == block_used                                 \* mutant
Released(path) ==
    [b \in Blocks |-> block_used[b] /\ b \notin Range(nodes[path].blocks)]

(* bs are the first Len(bs) blocks that are free in the bitmap, in order.        *)
FirstFit(used, bs) ==
    \A i \in DOMAIN bs :
        /\ ~used[bs[i]]
        /\ \A j \in 1..i - 1 : bs[j] < bs[i]
        /\ \A b \in 0..bs[i] - 1 : used[b] \/ \E j \in 1..i - 1 : bs[j] = b

WriteStatus(path, c) ==
    IF ~Resolves(path) THEN "path"
    ELSE IF ~HasType(path, "file") THEN "type"
    ELSE IF Available(path) < RequiredBlocks(Len(c)) THEN "space"
    ELSE "ok"

Write(path, c) ==
    \/ /\ WriteStatus(path, c) = "ok"
       /\ \E bs \in [1..RequiredBlocks(Len(c)) -> Blocks] :
            /\ FirstFit(Released(path), bs)
            /\ block_used' = [b \in Blocks |-> Released(path)[b] \/ b \in Range(bs)]
            /\ block_data' =
                 [b \in Blocks |->
                    IF b \in Range(bs)
                    THEN Chunk(c, CHOOSE i \in DOMAIN bs : bs[i] = b)
                    ELSE IF b \in Range(nodes[path].blocks) THEN NoData ELSE block_data[b]]
            /\ nodes' = [nodes EXCEPT ![path].size = Len(c), ![path].blocks = bs,
                                      ![path].block_count = RequiredBlocks(Len(c))]
       /\ Answer("write", "ok", NoValue)
       /\ UNCHANGED <<block_size, block_count>>
    \/ Refuse("write", WriteStatus(path, c))
    \/ OutOfMemory("write", WriteStatus(path, c)) /\ RequiredBlocks(Len(c)) > 0
--------------------------------------------------------------------------------
TargetStatus_AnyType(path, type) ==        \* mutant: no check but for the root
    IF Resolves(path) /\ path # RootPath THEN "ok" ELSE "path"
TargetStatus(path, type) ==
    IF ~Resolves(path) THEN "path"
    ELSE IF ~HasType(path, type) THEN "type"
    ELSE "ok"

(* fs_read appends the data of one block of the file after the other.             *)
ContentOf(p) ==
    LET bs == nodes[p].blocks
        read[k \in 0..Len(bs)] == IF k = 0 THEN << >> ELSE read[k - 1] \o block_data[bs[k]]
    IN  read[Len(bs)]

Read(path) ==
    \/ /\ TargetStatus(path, "file") = "ok"
       /\ Answer("read", "ok", ContentOf(path))
       /\ UNCHANGED <<disk, nodes>>
    \/ Refuse("read", TargetStatus(path, "file"))
    \/ OutOfMemory("read", TargetStatus(path, "file"))

(* What fs_print_ls shows of each child (without the order and the block list).  *)
Entries(d) ==
    {<<n, nodes[Append(d, n)].type, nodes[Append(d, n)].size>> :
       n \in {m \in Names : Append(d, m) \in DOMAIN nodes}}

Ls(path) ==
    \/ /\ TargetStatus(path, "dir") = "ok"
       /\ Answer("ls", "ok", Entries(Node(path)))
       /\ UNCHANGED <<disk, nodes>>
    \/ Refuse("ls", TargetStatus(path, "dir"))

Delete(path) ==
    \/ /\ TargetStatus(path, "file") = "ok"
       /\ block_used' = Released(path)
       /\ block_data' =
            [b \in Blocks |->
               IF b \in Range(nodes[path].blocks) THEN NoData ELSE block_data[b]]
       /\ nodes' = [p \in DOMAIN nodes \ {path} |-> nodes[p]]
       /\ Answer("delete", "ok", NoValue)
       /\ UNCHANGED <<block_size, block_count>>
    \/ Refuse("delete", TargetStatus(path, "file"))

Stat ==
    \/ /\ Mounted
       /\ Answer("stat", "ok", <<block_count, block_count - Cardinality(FreeBlocks),
                                 Cardinality(FreeBlocks)>>)
       /\ UNCHANGED <<disk, nodes>>
    \/ ~Mounted /\ Refuse("stat", "path")

(* A line parse_fs_command rejects.                                              *)
BadLine == Refuse("parse", "syntax")

Next ==
    \/ \E d \in Disks : Mkfs(d[1], d[2]) \/ RefuseMkfs(d[1], d[2])
    \/ \E path \in Paths :
         \/ Mkdir(path) \/ Create(path)
         \/ Read(path) \/ Ls(path) \/ Delete(path)
         \/ \E c \in Contents : Write(path, c)
    \/ Stat
    \/ BadLine

Spec == Init /\ [][Next]_vars
--------------------------------------------------------------------------------
FileNodes == {p \in DOMAIN nodes : nodes[p].type = "file"}

(* Types, and what every node and block satisfies by itself: a directory has no  *)
(* blocks, a file as many as RequiredBlocks says (none when that is negative), a  *)
(* block at most block_size bytes.                                              *)
TypeOK ==
    /\ block_size \in Nat /\ block_count \in Nat
    /\ block_used \in [Blocks -> BOOLEAN]
    /\ DOMAIN block_data = Blocks
    /\ \A b \in Blocks : Len(block_data[b]) <= block_size
    /\ \A p \in DOMAIN nodes :
         /\ nodes[p].type \in {"file", "dir"}
         /\ nodes[p].size \in Nat
         /\ nodes[p].blocks \in Seq(Blocks)
         /\ nodes[p].block_count = RequiredBlocks(nodes[p].size)
         /\ Len(nodes[p].blocks) = IF nodes[p].block_count > 0 THEN nodes[p].block_count ELSE 0
         /\ nodes[p].type = "dir" => nodes[p].size = 0
    /\ had_error \in BOOLEAN
    /\ out.status \in {"ok", "path", "type", "exists", "size", "space", "memory", "syntax"}

(* The bitmap and the files agree: no block belongs to two files or twice to one *)
(* file, a block is marked used exactly when a file owns it (nothing leaks and   *)
(* nothing in use can be given away), and exactly the used blocks hold data.     *)
BlocksOwned ==
    /\ \A p \in FileNodes : IsInjective(nodes[p].blocks)
    /\ \A p, q \in FileNodes :
         p # q => Range(nodes[p].blocks) \cap Range(nodes[q].blocks) = {}
    /\ \A b \in Blocks :
         block_used[b] <=> \E p \in FileNodes : b \in Range(nodes[p].blocks)
    /\ \A b \in Blocks : block_used[b] <=> block_data[b] # NoData

(* Every node hangs from a directory of the tree, up to the root, and has a      *)
(* valid name: no command leaves a node that no path reaches.                    *)
TreeConnected ==
    \A p \in DOMAIN nodes :
        \/ p = Root /\ nodes[p].type = "dir"
        \/ /\ p # Root /\ Last(p) \in Names
           /\ Front(p) \in DOMAIN nodes /\ nodes[Front(p)].type = "dir"

(* No int sum of RequiredBlocks wraps on this disk.                              *)
Fits(n) == n + block_size - 1 <= MaxInt
SumsFit == \A c \in Contents : Fits(Len(c))

(* A disk on which no sum wraps implements the store: a read returns what was last *)
(* written, a write fails for lack of space exactly when the content does not fit *)
(* beside the other files and then leaves the old content (docs/PRD.md:214), stat *)
(* counts the blocks the contents need, and a failed command changes nothing.     *)
Store == INSTANCE FileStore
         WITH store <- [p \in DOMAIN nodes |->
                          [type |-> nodes[p].type, content |-> ContentOf(p)]],
              capacity <- block_count,
              unit <- block_size

ImplementsStore ==
    /\ Store!Init
    /\ [][SumsFit => Store!Next \/ UNCHANGED Store!vars]_vars

(* An overwrite that reports success has replaced the content of the file, on      *)
(* every disk mkfs accepts (docs/PRD.md:212, docs/TECH.md:143).                   *)
OverwriteReplaces ==
    [][\A path \in Paths, c \in Contents :
          Write(path, c) /\ out'.status = "ok" => ContentOf(path)' = c]_vars
================================================================================
