--------------------------- MODULE FileSystemProofs ----------------------------
(* Theorems about FileSystem for all names, paths, contents and disks.             *)
EXTENDS FileSystem, FiniteSetTheorems, SequenceTheorems, WellFoundedInduction, TLAPS

Statuses == {"ok", "path", "type", "exists", "size", "space", "memory", "syntax"}
NodeType == [type : {"file", "dir"}, size : Nat, blocks : Seq(Blocks), block_count : Int]

(* What holds of disk and tree: the parts of TypeOK, a block size once there is a tree,  *)
(* and paths that are sequences of valid names.                                    *)
DiskOK ==
    /\ block_size \in Nat /\ block_size <= MaxInt /\ block_count \in Nat
    /\ block_used \in [Blocks -> BOOLEAN]
    /\ DOMAIN block_data = Blocks
    /\ \A b \in Blocks : Len(block_data[b]) <= block_size
    /\ Mounted => block_size > 0
Counted(m) == IF m > 0 THEN m ELSE 0
NodeOK(p) ==
    /\ nodes[p] \in NodeType
    /\ nodes[p].block_count = RequiredBlocks(nodes[p].size)
    /\ Len(nodes[p].blocks) = Counted(nodes[p].block_count)
    /\ nodes[p].type = "dir" => nodes[p].size = 0
NodesOK ==
    /\ DOMAIN nodes \subseteq Seq(Names)
    /\ nodes = [p \in DOMAIN nodes |-> nodes[p]]
    /\ \A p \in DOMAIN nodes : NodeOK(p)
AnswerOK == had_error \in BOOLEAN /\ out.status \in Statuses

FsOK == DiskOK /\ NodesOK /\ TreeConnected /\ BlocksOwned
Inv == AnswerOK /\ FsOK

LEMMA InvTypes == Inv => TypeOK
  BY DEF Inv, FsOK, AnswerOK, DiskOK, NodesOK, NodeOK, NodeType, Counted, Statuses, TypeOK
--------------------------------------------------------------------------------
(* Arithmetic: pieces of b bytes that cover n, and where the i-th begins and ends.      *)
LEMMA Pieces ==
    ASSUME NEW n \in Nat, n > 0, NEW b \in Nat, b > 0
    PROVE  /\ (n + b - 1) \div b \in Nat
           /\ \A i \in 1..(n + b - 1) \div b :
                 (i - 1) * b \in Nat /\ (i - 1) * b < n /\ i * b = (i - 1) * b + b
  <1> DEFINE x == n + b - 1
             k == x \div b
  <1>1. x \in Nat /\ k \in Nat /\ k * b <= x /\ k * b \in Nat
    <2>1. x \in Nat
      OBVIOUS
    <2> HIDE DEF x
    <2>2. x \div b \in Nat /\ (x \div b) * b <= x
      BY <2>1
    <2> QED
      BY <2>1, <2>2
  <1> HIDE DEF k
  <1>2. ASSUME NEW i \in 1..k
        PROVE  (i - 1) * b \in Nat /\ (i - 1) * b < n /\ i * b = (i - 1) * b + b
    <2>1. i \in Nat /\ i - 1 \in Nat /\ i <= k
      BY <1>1
    <2>2. i * b <= k * b /\ (i - 1) * b \in Nat /\ i * b \in Nat
      BY <1>1, <2>1
    <2>3. (i - 1) * b = i * b - b
      BY <2>1
    <2> QED
      BY <1>1, <2>2, <2>3
  <1> QED
    BY <1>1, <1>2 DEF k

(* What the commands are given.                                                   *)
LEMMA AssumedContent ==
    ASSUME NEW c \in Contents
    PROVE  c \in Seq(Range(c)) /\ c # << >> /\ Len(c) <= MaxInt
  BY FSAssumption, Zenon
LEMMA AssumedInt == MaxInt \in Nat
  BY FSAssumption, Zenon
LEMMA AssumedPath == ASSUME NEW path \in Paths
                     PROVE  path \in Seq(Names \cup {""}) /\ path # << >>
  BY FSAssumption, Zenon
LEMMA AssumedDisk == ASSUME NEW d \in Disks
                     PROVE  d[1] \in Int /\ d[2] \in Int /\ d[2] <= MaxInt
  <1>1. d \in (MinInt..MaxInt) \X (MinInt..MaxInt)
    BY FSAssumption, Zenon
  <1>2. MinInt \in Int /\ MaxInt \in Int
    BY AssumedInt DEF MinInt
  <1> QED
    BY <1>1, <1>2
LEMMA AssumedNames == "" \notin Names
  BY FSAssumption, Zenon

(* A sum that does not wrap is what it is, one that wraps is negative.                *)
LEMMA Wraps ==
    ASSUME NEW h \in Nat, NEW x \in Nat, x <= 2 * h
    PROVE  /\ x <= h => ((x + h + 1) % (2 * (h + 1))) - (h + 1) = x
           /\ x > h => ((x + h + 1) % (2 * (h + 1))) - (h + 1) = x - 2 * (h + 1)
  <1> DEFINE w == 2 * (h + 1)
  <1>1. w \in Nat /\ w > 0 /\ w = h + 1 + h + 1
    OBVIOUS
  <1> HIDE DEF w
  <1>2. ASSUME NEW y \in Nat, y < w PROVE y % w = y
    BY <1>1, <1>2
  <1>3. ASSUME NEW y \in Nat, w <= y, y - w < w PROVE y % w = y - w
    <2> DEFINE z == y - w
    <2>1. z \in Nat /\ z < w /\ y = z + w
      BY <1>1, <1>3
    <2> HIDE DEF z
    <2>2. y % w = z
      BY <1>1, <2>1
    <2> QED
      BY <2>2 DEF z
  <1>4. CASE x <= h
    <2>1. (x + h + 1) % w = x + h + 1
      BY <1>1, <1>2, <1>4
    <2> QED
      BY <1>4, <2>1 DEF w
  <1>5. CASE x > h
    <2>1. (x + h + 1) % w = x + h + 1 - w
      BY <1>1, <1>3, <1>5
    <2> QED
      BY <1>5, <2>1 DEF w
  <1> QED
    BY <1>4, <1>5

LEMMA Divides ==
    ASSUME NEW a \in Int, NEW b \in Nat, b > 0
    PROVE  /\ Divide(a, b) \in Int
           /\ a >= 0 => Divide(a, b) = a \div b
           /\ a < 0 => Divide(a, b) <= 0
  <1>1. ASSUME NEW x \in Nat PROVE x \div b \in Nat
    BY <1>1
  <1>2. CASE a >= 0
    BY <1>1, <1>2 DEF Divide
  <1>3. CASE a < 0
    <2>1. -a \in Nat
      BY <1>3
    <2>2. (-a) \div b \in Nat
      BY <1>1, <2>1
    <2>3. Divide(a, b) = -((-a) \div b)
      BY <1>3 DEF Divide
    <2> QED
      BY <1>3, <2>2, <2>3
  <1> QED
    BY <1>2, <1>3

(* The blocks n bytes need: as many as cover them, or none when the int sum wraps.     *)
LEMMA RequiredFacts ==
    ASSUME NEW n \in Nat, n <= MaxInt, block_size \in Nat, block_size <= MaxInt,
           n > 0 => block_size > 0
    PROVE  /\ RequiredBlocks(n) \in Int
           /\ n > 0 /\ Fits(n) => RequiredBlocks(n) = (n + block_size - 1) \div block_size
           /\ n > 0 /\ ~Fits(n) => RequiredBlocks(n) <= 0
           /\ Fits(n) => RequiredBlocks(n) \in Nat
  <1> DEFINE x == n + block_size - 1
  <1>1. CASE n = 0
    BY <1>1 DEF RequiredBlocks
  <1>2. CASE n > 0
    <2>1. MaxInt \in Nat /\ x \in Nat /\ x <= 2 * MaxInt
      BY <1>2, AssumedInt
    <2>2. Fits(n) <=> x <= MaxInt
      BY DEF Fits
    <2>3. RequiredBlocks(n) = Divide(ToInt(x), block_size)
      BY <1>2 DEF RequiredBlocks
    <2> HIDE DEF x
    <2>4. ToInt(x) = ((x + MaxInt + 1) % (2 * (MaxInt + 1))) - (MaxInt + 1)
      BY <2>1 DEF ToInt, MinInt
    <2>5. x <= MaxInt => ToInt(x) = x
      BY <2>1, <2>4, Wraps
    <2>6. x > MaxInt => ToInt(x) = x - 2 * (MaxInt + 1)
      BY <2>1, <2>4, Wraps
    <2>7. CASE x <= MaxInt
      <3>1. ToInt(x) = x /\ x \div block_size \in Nat
        BY <1>2, <2>1, <2>5, <2>7
      <3> QED
        BY <1>2, <2>1, <2>2, <2>3, <2>7, <3>1, Divides DEF x
    <2>8. CASE x > MaxInt
      <3>1. ToInt(x) \in Int /\ ToInt(x) < 0
        BY <2>1, <2>6, <2>8
      <3> QED
        BY <1>2, <2>1, <2>2, <2>3, <2>8, <3>1, Divides
    <2> QED
      BY <2>1, <2>7, <2>8
  <1> QED
    BY <1>1, <1>2

LEMMA ChunkFacts ==
    ASSUME NEW c \in Contents, block_size \in Nat, block_size > 0, block_size <= MaxInt,
           NEW i \in 1..RequiredBlocks(Len(c))
    PROVE  /\ Len(Chunk(c, i)) <= block_size
           /\ Chunk(c, i) # << >>
  <1> DEFINE n == Len(c)
             m == (i - 1) * block_size
             e == IF i * block_size < n THEN i * block_size ELSE n
  <1>1. c \in Seq(Range(c)) /\ n \in Nat /\ n > 0 /\ n <= MaxInt
    BY AssumedContent
  <1>2. i \in 1..(n + block_size - 1) \div block_size
    <2>1. RequiredBlocks(n) \in Int /\ RequiredBlocks(n) > 0
      BY <1>1, RequiredFacts
    <2> QED
      BY <1>1, <2>1, RequiredFacts
  <1>3. m \in Nat /\ m < n /\ i * block_size = m + block_size
    BY <1>1, <1>2, Pieces
  <1>4. Chunk(c, i) = SubSeq(c, m + 1, e)
    BY DEF Chunk
  <1> HIDE DEF m
  <1>5. e \in Nat /\ m < e /\ e <= n /\ e <= m + block_size
    BY <1>1, <1>3
  <1> HIDE DEF n, e
  <1>6. Len(SubSeq(c, m + 1, e)) = e - m
    BY <1>1, <1>3, <1>5 DEF n
  <1>7. e - m <= block_size /\ e - m # 0
    BY <1>1, <1>3, <1>5
  <1>8. Len(<< >>) = 0
    OBVIOUS
  <1> QED
    BY <1>4, <1>6, <1>7, <1>8
--------------------------------------------------------------------------------
(* Paths and the nodes they name.                                                 *)
LEMMA NodeFacts ==
    ASSUME NodesOK, NEW path, Resolves(path)
    PROVE  /\ Mounted /\ Node(path) \in DOMAIN nodes
           /\ path \in DOMAIN nodes => Node(path) = path
           /\ path \notin DOMAIN nodes => Node(path) = Root
  <1>1. RootPath \notin Seq(Names)
    <2>1. ASSUME NEW S, NEW x, <<x>> \in Seq(S) PROVE x \in S
      <3>1. <<x>>[1] \in S
        BY <2>1, ElementOfSeq
      <3> QED
        BY <3>1
    <2> QED
      BY <2>1, AssumedNames DEF RootPath
  <1>2. RootPath \notin DOMAIN nodes
    BY <1>1 DEF NodesOK
  <1> QED
    BY <1>2 DEF Resolves, Mounted, Node

LEMMA ChildFacts ==
    ASSUME NEW q \in Seq(Names), NEW m \in Names
    PROVE  /\ Append(q, m) \in Seq(Names) /\ Append(q, m) # Root
           /\ Last(Append(q, m)) = m /\ Front(Append(q, m)) = q
  BY DEF Last, Front, Root

(* A tree that a step changes at one place only.                                   *)
LEMMA Extended ==
    ASSUME NEW p, NEW node, p \notin DOMAIN nodes,
           nodes' = [r \in DOMAIN nodes \cup {p} |-> IF r = p THEN node ELSE nodes[r]]
    PROVE  /\ DOMAIN nodes' = DOMAIN nodes \cup {p}
           /\ nodes'[p] = node
           /\ \A q \in DOMAIN nodes : nodes'[q] = nodes[q]
  OBVIOUS

LEMMA CreateStep ==
    ASSUME FsOK, NEW path, NEW node \in {Directory, EmptyFile}, CreateStatus(path) = "ok",
           nodes' = [p \in DOMAIN nodes \cup {Child(path)} |->
                       IF p = Child(path) THEN node ELSE nodes[p]],
           UNCHANGED disk
    PROVE  FsOK'
  <1> DEFINE q == Node(ParentPath(path))
             m == Last(path)
             p == Child(path)
  <1>1. m \in Names /\ Resolves(ParentPath(path)) /\ nodes[q].type = "dir" /\ p \notin DOMAIN nodes
    BY DEF CreateStatus, HasType
  <1>2. q \in DOMAIN nodes /\ Mounted /\ q \in Seq(Names)
    BY <1>1, NodeFacts DEF FsOK, NodesOK
  <1>3. p \in Seq(Names) /\ p # Root /\ Last(p) = m /\ Front(p) = q
    BY <1>1, <1>2, ChildFacts DEF Child
  <1> HIDE DEF q, m, p
  <1>4. /\ DOMAIN nodes' = DOMAIN nodes \cup {p}
        /\ nodes'[p] = node
        /\ \A r \in DOMAIN nodes : nodes'[r] = nodes[r]
    BY <1>1, Extended DEF p
  <1>5. /\ node.type \in {"file", "dir"} /\ node.size = 0
        /\ node.blocks = << >> /\ node.block_count = 0 /\ node \in NodeType
    <2>1. << >> \in Seq(Blocks)
      OBVIOUS
    <2>2. CASE node = Directory
      BY <2>1, <2>2 DEF Directory, NodeType
    <2>3. CASE node = EmptyFile
      BY <2>1, <2>3 DEF EmptyFile, NodeType
    <2> QED
      BY <2>2, <2>3
  <1>6. UNCHANGED <<block_size, block_count, block_used, block_data, Blocks>>
    BY DEF disk, Blocks
  <1>7. DiskOK'
    BY <1>2, <1>6 DEF FsOK, DiskOK
  <1>8. NodesOK'
    <2>1. (nodes = [r \in DOMAIN nodes |-> nodes[r]])'
      OBVIOUS
    <2>2. NodeType' = NodeType
      BY <1>6 DEF NodeType
    <2>3. RequiredBlocks(0) = 0 /\ Len(<< >>) = 0 /\ Counted(0) = 0
      BY DEF RequiredBlocks, Counted
    <2>4. ASSUME NEW r \in DOMAIN nodes' PROVE NodeOK(r)'
      <3>1. CASE r \in DOMAIN nodes
        <4>1. NodeOK(r)
          BY <3>1 DEF FsOK, NodesOK
        <4> QED
          BY <1>4, <1>6, <2>2, <3>1, <4>1 DEF NodeOK, RequiredBlocks
      <3>2. CASE r = p
        BY <1>4, <1>5, <1>6, <2>2, <2>3, <3>2 DEF NodeOK, RequiredBlocks
      <3> QED
        BY <1>4, <3>1, <3>2
    <2> QED
      BY <1>3, <1>4, <2>1, <2>4 DEF FsOK, NodesOK
  <1>9. TreeConnected'
    BY <1>1, <1>2, <1>3, <1>4 DEF FsOK, TreeConnected
  <1>10. BlocksOwned'
    <2>1. IsInjective(<< >>) /\ Range(<< >>) = {}
      BY DEF IsInjective, Range
    <2>2. FileNodes' \subseteq FileNodes \cup {p} /\ FileNodes \subseteq FileNodes'
      BY <1>4 DEF FileNodes
    <2>3. \A r \in FileNodes : r \in DOMAIN nodes /\ nodes'[r].blocks = nodes[r].blocks
      BY <1>4 DEF FileNodes
    <2>4. nodes'[p].blocks = << >>
      BY <1>4, <1>5
    <2>5. ASSUME NEW r \in FileNodes'
          PROVE  \/ r \in FileNodes /\ nodes'[r].blocks = nodes[r].blocks
                 \/ IsInjective(nodes'[r].blocks) /\ Range(nodes'[r].blocks) = {}
      BY <2>1, <2>2, <2>3, <2>4
    <2>6. \A r \in FileNodes' : IsInjective(nodes'[r].blocks)
      BY <2>5 DEF FsOK, BlocksOwned
    <2>7. \A r, t \in FileNodes' :
             r # t => Range(nodes'[r].blocks) \cap Range(nodes'[t].blocks) = {}
      BY <2>5 DEF FsOK, BlocksOwned
    <2>8. \A b \in Blocks : (\E r \in FileNodes : b \in Range(nodes[r].blocks))
                            <=> \E r \in FileNodes' : b \in Range(nodes'[r].blocks)
      BY <2>2, <2>3, <2>5
    <2> QED
      BY <1>6, <2>6, <2>7, <2>8 DEF FsOK, BlocksOwned
  <1> QED
    BY <1>7, <1>8, <1>9, <1>10 DEF FsOK
--------------------------------------------------------------------------------
(* mkfs leaves an empty tree on a free disk, or no file system.                      *)
LEMMA MkfsStep ==
    ASSUME NEW d \in Int, NEW b \in Int, b <= MaxInt, Mkfs(d, b)
    PROVE  FsOK'
  <1> DEFINE n == d \div b
  <1>1. CASE /\ block_size' = b /\ block_count' = n
             /\ block_used' = [k \in 0..n - 1 |-> FALSE]
             /\ block_data' = [k \in 0..n - 1 |-> NoData]
             /\ nodes' = [p \in {Root} |-> Directory]
    <2>1. b \in Nat /\ b > 0 /\ n \in Nat
      <3>1. d \in Nat /\ b \in Nat /\ d > 0 /\ b > 0
        BY DEF Mkfs
      <3> QED
        BY <3>1
    <2> HIDE DEF n
    <2>2. Blocks' = 0..n - 1
      BY <1>1 DEF Blocks
    <2>3. DiskOK'
      <3>1. Len(NoData) = 0
        BY DEF NoData
      <3> QED
        BY <1>1, <2>1, <2>2, <3>1 DEF DiskOK
    <2>4. DOMAIN nodes' = {Root} /\ nodes'[Root] = Directory
      BY <1>1
    <2>5. NodesOK'
      <3>1. NodeOK(Root)'
        <4>1. << >> \in Seq(Blocks') /\ Len(<< >>) = 0
          OBVIOUS
        <4> QED
          BY <2>4, <4>1 DEF NodeOK, NodeType, Directory, RequiredBlocks, Counted
      <3>2. Root \in Seq(Names)
        BY DEF Root
      <3> QED
        BY <1>1, <2>4, <3>1, <3>2 DEF NodesOK
    <2>6. TreeConnected'
      BY <2>4 DEF TreeConnected, Directory
    <2>7. FileNodes' = {}
      BY <2>4 DEF FileNodes, Directory
    <2>8. BlocksOwned'
      BY <1>1, <2>2, <2>7 DEF BlocksOwned
    <2> QED
      BY <2>3, <2>5, <2>6, <2>8 DEF FsOK
  <1>2. CASE /\ block_size' = 0 /\ block_count' = 0
             /\ block_used' = << >> /\ block_data' = << >> /\ nodes' = << >>
    <2>1. Blocks' = {} /\ DOMAIN << >> = {}
      BY <1>2 DEF Blocks
    <2>2. << >> = [x \in {} |-> FALSE] /\ << >> = [x \in {} |-> << >>[x]]
      BY <2>1
    <2>3. DiskOK'
      BY <1>2, <2>1, <2>2, AssumedInt DEF DiskOK, Mounted
    <2>4. NodesOK'
      BY <1>2, <2>1, <2>2 DEF NodesOK
    <2>5. TreeConnected' /\ BlocksOwned'
      BY <1>2, <2>1 DEF TreeConnected, BlocksOwned, FileNodes
    <2> QED
      BY <2>3, <2>4, <2>5 DEF FsOK
  <1> QED
    BY <1>1, <1>2 DEF Mkfs
--------------------------------------------------------------------------------
(* A path that names a file; it is not the root, and nothing hangs from it.             *)
LEMMA FileFacts ==
    ASSUME FsOK, NEW path, Resolves(path), HasType(path, "file")
    PROVE  /\ Mounted /\ path \in FileNodes /\ path # Root
           /\ \A p \in DOMAIN nodes : p # Root => Front(p) # path
  <1>1. Node(path) \in DOMAIN nodes /\ nodes[Node(path)].type = "file" /\ Mounted
    BY NodeFacts DEF FsOK, HasType
  <1>2. nodes[Root].type = "dir"
    BY <1>1 DEF FsOK, TreeConnected, Mounted
  <1>3. Node(path) = path /\ path # Root
    BY <1>1, <1>2, NodeFacts DEF FsOK
  <1> QED
    BY <1>1, <1>3 DEF FsOK, TreeConnected, FileNodes

(* After the release of a file's blocks exactly those of the others are in use.          *)
LEMMA ReleasedFacts ==
    ASSUME FsOK, NEW path \in FileNodes
    PROVE  /\ Released(path) \in [Blocks -> BOOLEAN]
           /\ \A b \in Blocks :
                /\ Released(path)[b]
                    <=> \E p \in FileNodes \ {path} : b \in Range(nodes[p].blocks)
                /\ Released(path)[b] <=> block_data[b] # NoData /\ b \notin Range(nodes[path].blocks)
  <1>1. Released(path) \in [Blocks -> BOOLEAN]
    BY DEF Released
  <1>2. ASSUME NEW b \in Blocks
        PROVE  Released(path)[b] <=> block_used[b] /\ b \notin Range(nodes[path].blocks)
    BY DEF Released
  <1> QED
    BY <1>1, <1>2 DEF FsOK, BlocksOwned

LEMMA DeleteStep ==
    ASSUME FsOK, NEW path, TargetStatus(path, "file") = "ok",
           block_used' = Released(path),
           block_data' = [b \in Blocks |-> IF b \in Range(nodes[path].blocks) THEN NoData
                                           ELSE block_data[b]],
           nodes' = [p \in DOMAIN nodes \ {path} |-> nodes[p]],
           UNCHANGED <<block_size, block_count>>
    PROVE  FsOK'
  <1>1. /\ Mounted /\ path \in FileNodes /\ path # Root
        /\ \A p \in DOMAIN nodes : p # Root => Front(p) # path
    BY FileFacts DEF TargetStatus
  <1>2. Blocks' = Blocks /\ block_size' = block_size
    BY DEF Blocks
  <1>3. /\ DOMAIN nodes' = DOMAIN nodes \ {path}
        /\ \A p \in DOMAIN nodes' : nodes'[p] = nodes[p]
    OBVIOUS
  <1>4. DiskOK'
    <2>1. Len(NoData) = 0
      BY DEF NoData
    <2> QED
      BY <1>1, <1>2, <2>1, ReleasedFacts DEF FsOK, DiskOK, Mounted
  <1>5. NodesOK'
    <2>1. ASSUME NEW p \in DOMAIN nodes' PROVE NodeOK(p)'
      BY <1>2, <1>3 DEF FsOK, NodesOK, NodeOK, NodeType, RequiredBlocks
    <2> QED
      BY <1>3, <2>1 DEF FsOK, NodesOK
  <1>6. TreeConnected'
    BY <1>1, <1>3 DEF FsOK, TreeConnected
  <1>7. BlocksOwned'
    <2>1. FileNodes' = FileNodes \ {path} /\ \A p \in FileNodes' : nodes'[p] = nodes[p]
      BY <1>3 DEF FileNodes
    <2>2. \A b \in Blocks : block_used'[b] <=> block_data'[b] # NoData
      BY <1>1, ReleasedFacts
    <2>3. \A b \in Blocks :
             block_used'[b] <=> \E p \in FileNodes' : b \in Range(nodes'[p].blocks)
      <3>1. \A b \in Blocks : block_used'[b]
               <=> \E p \in FileNodes \ {path} : b \in Range(nodes[p].blocks)
        BY <1>1, ReleasedFacts
      <3>2. \A p \in FileNodes \ {path} : nodes'[p].blocks = nodes[p].blocks
        BY <2>1
      <3> QED
        BY <2>1, <3>1, <3>2
    <2> QED
      BY <1>2, <2>1, <2>2, <2>3 DEF FsOK, BlocksOwned
  <1> QED
    BY <1>4, <1>5, <1>6, <1>7 DEF FsOK
--------------------------------------------------------------------------------
(* The blocks of a write are different ones, and none is in use by another file.       *)
LEMMA FirstFitFacts ==
    ASSUME NEW used, NEW n \in Int, NEW bs \in [1..n -> Blocks], FirstFit(used, bs)
    PROVE  /\ bs \in Seq(Blocks) /\ Len(bs) = Counted(n)
           /\ IsInjective(bs)
           /\ \A b \in Range(bs) : b \in Blocks /\ ~used[b]
  <1>1. bs \in Seq(Blocks) /\ Len(bs) = Counted(n) /\ DOMAIN bs = 1..n
    <2>1. Counted(n) \in Nat /\ 1..n = 1..Counted(n)
      BY DEF Counted
    <2>2. bs \in [1..Counted(n) -> Blocks]
      BY <2>1
    <2> HIDE DEF Counted
    <2> QED
      BY <2>1, <2>2
  <1>2. \A i \in 1..n : ~used[bs[i]] /\ \A j \in 1..i - 1 : bs[j] < bs[i]
    BY <1>1 DEF FirstFit
  <1>3. \A i, j \in 1..n : bs[i] = bs[j] => i = j
    <2>1. ASSUME NEW i \in 1..n, NEW j \in 1..n, j < i PROVE bs[j] < bs[i]
      BY <1>2, <2>1
    <2>2. \A i \in 1..n : bs[i] \in Int
      BY DEF Blocks
    <2> QED
      BY <2>1, <2>2
  <1> QED
    BY <1>1, <1>2, <1>3 DEF IsInjective, Range

LEMMA WriteStep ==
    ASSUME FsOK, NEW path, NEW c \in Contents, WriteStatus(path, c) = "ok",
           NEW bs \in [1..RequiredBlocks(Len(c)) -> Blocks], FirstFit(Released(path), bs),
           block_used' = [b \in Blocks |-> Released(path)[b] \/ b \in Range(bs)],
           block_data' = [b \in Blocks |->
                            IF b \in Range(bs)
                            THEN Chunk(c, CHOOSE i \in DOMAIN bs : bs[i] = b)
                            ELSE IF b \in Range(nodes[path].blocks) THEN NoData ELSE block_data[b]],
           nodes' = [nodes EXCEPT ![path].size = Len(c), ![path].blocks = bs,
                                  ![path].block_count = RequiredBlocks(Len(c))],
           UNCHANGED <<block_size, block_count>>
    PROVE  FsOK'
  <1>1. Mounted /\ path \in FileNodes /\ path \in DOMAIN nodes
    BY FileFacts DEF WriteStatus, FileNodes
  <1>2. Blocks' = Blocks /\ block_size' = block_size
    BY DEF Blocks
  <1>3. /\ Len(c) \in Nat /\ Len(c) <= MaxInt
        /\ block_size \in Nat /\ block_size > 0 /\ block_size <= MaxInt
    BY <1>1, AssumedContent DEF FsOK, DiskOK
  <1>4. /\ RequiredBlocks(Len(c)) \in Int
        /\ bs \in Seq(Blocks) /\ Len(bs) = Counted(RequiredBlocks(Len(c))) /\ IsInjective(bs)
        /\ \A b \in Range(bs) : b \in Blocks /\ ~Released(path)[b]
    <2>1. RequiredBlocks(Len(c)) \in Int
      BY <1>3, RequiredFacts
    <2> QED
      BY <2>1, FirstFitFacts
  <1>5. \A b \in Range(bs) : Len(block_data'[b]) <= block_size /\ block_data'[b] # NoData
    <2>1. ASSUME NEW b \in Range(bs)
          PROVE  \E i \in 1..RequiredBlocks(Len(c)) : block_data'[b] = Chunk(c, i)
      <3>1. \E i \in DOMAIN bs : bs[i] = b
        BY DEF Range
      <3>2. block_data'[b] = Chunk(c, CHOOSE i \in DOMAIN bs : bs[i] = b)
        BY <1>4
      <3> QED
        BY <3>1, <3>2
    <2> QED
      BY <1>3, <2>1, ChunkFacts DEF NoData
  <1>6. \A b \in Blocks \ Range(bs) :
           block_data'[b] = IF b \in Range(nodes[path].blocks) THEN NoData ELSE block_data[b]
    OBVIOUS
  <1>7. nodes[path] \in NodeType /\ nodes[path].type = "file"
    BY <1>1 DEF FsOK, NodesOK, NodeOK, FileNodes
  <1>8. /\ DOMAIN nodes' = DOMAIN nodes
        /\ \A p \in DOMAIN nodes : p # path => nodes'[p] = nodes[p]
        /\ nodes'[path].type = "file" /\ nodes'[path].size = Len(c) /\ nodes'[path].blocks = bs
        /\ nodes'[path].block_count = RequiredBlocks(Len(c))
        /\ nodes'[path] \in NodeType
    BY <1>1, <1>3, <1>4, <1>7 DEF NodeType
  <1>9. DiskOK'
    <2>1. Len(NoData) = 0
      BY DEF NoData
    <2>2. block_used' \in [Blocks -> BOOLEAN]
      BY Zenon
    <2>3. DOMAIN block_data' = Blocks
      OBVIOUS
    <2>4. \A b \in Blocks : Len(block_data'[b]) <= block_size
      <3>1. ASSUME NEW b \in Blocks, b \notin Range(bs)
            PROVE  block_data'[b] = NoData \/ block_data'[b] = block_data[b]
        BY <1>6, <3>1
      <3>2. \A b \in Blocks : Len(block_data[b]) <= block_size
        BY DEF FsOK, DiskOK
      <3>3. ASSUME NEW b \in Blocks, b \notin Range(bs)
            PROVE  Len(block_data'[b]) <= block_size
        <4>1. CASE block_data'[b] = NoData
          BY <1>3, <2>1, <4>1
        <4>2. CASE block_data'[b] = block_data[b]
          BY <3>2, <4>2
        <4> QED
          BY <3>1, <3>3, <4>1, <4>2
      <3> QED
        BY <1>5, <3>3
    <2> QED
      BY <1>2, <1>3, <2>2, <2>3, <2>4 DEF FsOK, DiskOK
  <1>10. NodesOK'
    <2>1. (nodes = [r \in DOMAIN nodes |-> nodes[r]])'
      OBVIOUS
    <2>2. NodeType' = NodeType
      BY <1>2 DEF NodeType
    <2>3. ASSUME NEW p \in DOMAIN nodes PROVE NodeOK(p)'
      <3>1. CASE p = path
        BY <1>2, <1>4, <1>8, <2>2, <3>1 DEF NodeOK, RequiredBlocks
      <3>2. CASE p # path
        BY <1>2, <1>8, <2>2, <3>2 DEF FsOK, NodesOK, NodeOK, RequiredBlocks
      <3> QED
        BY <3>1, <3>2
    <2> QED
      BY <1>8, <2>1, <2>3 DEF FsOK, NodesOK
  <1>11. TreeConnected'
    <2>1. \A p \in DOMAIN nodes : nodes'[p].type = nodes[p].type
      BY <1>7, <1>8
    <2> QED
      BY <1>8, <2>1 DEF FsOK, TreeConnected
  <1>12. BlocksOwned'
    <2>1. FileNodes' = FileNodes
      BY <1>7, <1>8 DEF FileNodes
    <2>2. \A p \in FileNodes : p # path => nodes'[p].blocks = nodes[p].blocks
      BY <1>8 DEF FileNodes
    <2>3. \A p \in FileNodes \ {path}, b \in Range(bs) : b \notin Range(nodes[p].blocks)
      BY <1>1, <1>4, ReleasedFacts
    <2>4. \A p \in FileNodes : IsInjective(nodes'[p].blocks)
      BY <1>4, <1>8, <2>2 DEF FsOK, BlocksOwned
    <2>5. \A p, q \in FileNodes :
             p # q => Range(nodes'[p].blocks) \cap Range(nodes'[q].blocks) = {}
      <3>1. \A p, q \in FileNodes :
               p # q => Range(nodes[p].blocks) \cap Range(nodes[q].blocks) = {}
        BY DEF FsOK, BlocksOwned
      <3>2. nodes'[path].blocks = bs
        BY <1>8
      <3>3. ASSUME NEW p \in FileNodes, NEW q \in FileNodes, p # q, q # path
            PROVE  Range(nodes'[p].blocks) \cap Range(nodes'[q].blocks) = {}
        <4>1. CASE p = path
          BY <2>2, <2>3, <3>2, <3>3, <4>1
        <4>2. CASE p # path
          BY <2>2, <3>1, <3>3, <4>2
        <4> QED
          BY <4>1, <4>2
      <3> QED
        BY <3>3
    <2>6. ASSUME NEW b \in Blocks
          PROVE  block_used'[b] <=> \E p \in FileNodes : b \in Range(nodes'[p].blocks)
      <3>1. block_used'[b] <=> Released(path)[b] \/ b \in Range(bs)
        OBVIOUS
      <3>2. Released(path)[b] <=> \E p \in FileNodes \ {path} : b \in Range(nodes[p].blocks)
        BY <1>1, ReleasedFacts
      <3> QED
        BY <1>1, <1>8, <2>2, <3>1, <3>2
    <2>7. ASSUME NEW b \in Blocks PROVE block_used'[b] <=> block_data'[b] # NoData
      BY <1>1, <1>5, <1>6, ReleasedFacts
    <2> QED
      BY <1>2, <2>1, <2>4, <2>5, <2>6, <2>7 DEF BlocksOwned
  <1> QED
    BY <1>9, <1>10, <1>11, <1>12 DEF FsOK
--------------------------------------------------------------------------------
(* What a command answers.                                                        *)
LEMMA Answered ==
    ASSUME AnswerOK, NEW op, NEW status \in Statuses, NEW value, Answer(op, status, value)
    PROVE  AnswerOK'
  <1>1. had_error' \in BOOLEAN
    BY Zenon DEF Answer
  <1>2. out'.status = status
    BY DEF Answer
  <1> QED
    BY <1>1, <1>2 DEF AnswerOK

LEMMA NothingChanged == ASSUME FsOK, UNCHANGED <<disk, nodes>> PROVE FsOK'
  <1>1. UNCHANGED <<block_size, block_count, block_used, block_data, nodes>>
    BY DEF disk
  <1>2. DiskOK' /\ TreeConnected'
    BY <1>1 DEF FsOK, DiskOK, Mounted, Blocks, TreeConnected
  <1>3. NodesOK'
    BY <1>1 DEF FsOK, NodesOK, NodeOK, NodeType, Blocks, RequiredBlocks
  <1>4. BlocksOwned'
    BY <1>1 DEF FsOK, BlocksOwned, FileNodes, Blocks
  <1> QED
    BY <1>2, <1>3, <1>4 DEF FsOK

LEMMA Failed ==
    ASSUME Inv, NEW op, NEW status \in Statuses, Refuse(op, status) \/ OutOfMemory(op, status)
    PROVE  Inv'
  <1>1. UNCHANGED <<disk, nodes>>
    BY DEF Refuse, OutOfMemory
  <1>2. \E s \in Statuses : Answer(op, s, NoValue)
    BY DEF Refuse, OutOfMemory, Statuses
  <1> QED
    BY <1>1, <1>2, Answered, NothingChanged DEF Inv

LEMMA Unchanged ==
    ASSUME Inv, NEW op, NEW value, Answer(op, "ok", value), UNCHANGED <<disk, nodes>>
    PROVE  Inv'
  BY Answered, NothingChanged DEF Inv, Statuses

LEMMA InvInit == Init => Inv
  <1> SUFFICES ASSUME Init PROVE Inv
    OBVIOUS
  <1>1. Blocks = {} /\ DOMAIN << >> = {}
    BY DEF Init, Blocks
  <1>2. << >> = [x \in {} |-> FALSE] /\ << >> = [x \in {} |-> << >>[x]]
    BY <1>1
  <1>3. DiskOK
    BY <1>1, <1>2, AssumedInt DEF Init, DiskOK, Mounted
  <1>4. NodesOK
    BY <1>1, <1>2 DEF Init, NodesOK
  <1>5. TreeConnected /\ BlocksOwned
    BY <1>1 DEF Init, TreeConnected, BlocksOwned, FileNodes
  <1>6. had_error \in BOOLEAN
    BY Zenon DEF Init
  <1>7. out.status \in Statuses
    BY DEF Init, Statuses
  <1> QED
    BY <1>3, <1>4, <1>5, <1>6, <1>7 DEF Inv, FsOK, AnswerOK

LEMMA InvNext == Inv /\ [Next]_vars => Inv'
  <1> SUFFICES ASSUME Inv, [Next]_vars PROVE Inv'
    OBVIOUS
  <1>1. ASSUME NEW d \in Disks, Mkfs(d[1], d[2]) \/ RefuseMkfs(d[1], d[2]) PROVE Inv'
    <2>1. d[1] \in Int /\ d[2] \in Int /\ d[2] <= MaxInt
      BY AssumedDisk
    <2>2. CASE Mkfs(d[1], d[2])
      <3>1. \E s \in Statuses : Answer("mkfs", s, NoValue)
        BY <2>2 DEF Mkfs, Statuses
      <3> QED
        BY <2>1, <2>2, <3>1, Answered, MkfsStep DEF Inv
    <2>3. CASE RefuseMkfs(d[1], d[2])
      BY <2>3, Failed DEF RefuseMkfs, Statuses
    <2> QED
      BY <1>1, <2>2, <2>3
  <1>2. ASSUME NEW path \in Paths, NEW op, NEW node \in {Directory, EmptyFile},
               create_child(op, path, node)
        PROVE  Inv'
    <2>1. CreateStatus(path) \in Statuses
      BY DEF CreateStatus, Statuses
    <2>2. CASE Refuse(op, CreateStatus(path)) \/ OutOfMemory(op, CreateStatus(path))
      BY <2>1, <2>2, Failed
    <2>3. CASE /\ CreateStatus(path) = "ok"
               /\ nodes' = [p \in DOMAIN nodes \cup {Child(path)} |->
                              IF p = Child(path) THEN node ELSE nodes[p]]
               /\ Answer(op, "ok", NoValue)
               /\ UNCHANGED disk
      BY <2>1, <2>3, Answered, CreateStep DEF Inv
    <2> QED
      BY <1>2, <2>2, <2>3 DEF create_child
  <1>3. ASSUME NEW path \in Paths, Read(path) \/ Ls(path) PROVE Inv'
    <2>1. TargetStatus(path, "file") \in Statuses /\ TargetStatus(path, "dir") \in Statuses
      BY DEF TargetStatus, Statuses
    <2> QED
      BY <1>3, <2>1, Failed, Unchanged DEF Read, Ls
  <1>4. ASSUME NEW path \in Paths, Delete(path) PROVE Inv'
    <2>1. TargetStatus(path, "file") \in Statuses /\ "ok" \in Statuses
      BY DEF TargetStatus, Statuses
    <2>2. CASE Refuse("delete", TargetStatus(path, "file"))
      BY <2>1, <2>2, Failed
    <2>3. CASE ~Refuse("delete", TargetStatus(path, "file"))
      <3>1. FsOK'
        BY <1>4, <2>3, DeleteStep DEF Delete, Inv
      <3> QED
        BY <1>4, <2>1, <2>3, <3>1, Answered DEF Delete, Inv
    <2> QED
      BY <2>2, <2>3
  <1>5. ASSUME NEW path \in Paths, NEW c \in Contents, Write(path, c) PROVE Inv'
    <2>1. WriteStatus(path, c) \in Statuses /\ "ok" \in Statuses
      BY DEF WriteStatus, Statuses
    <2>2. CASE Refuse("write", WriteStatus(path, c)) \/ OutOfMemory("write", WriteStatus(path, c))
      BY <2>1, <2>2, Failed
    <2>3. CASE ~(Refuse("write", WriteStatus(path, c)) \/ OutOfMemory("write", WriteStatus(path, c)))
      <3>1. FsOK'
        BY <1>5, <2>3, WriteStep DEF Write, Inv
      <3> QED
        BY <1>5, <2>1, <2>3, <3>1, Answered DEF Write, Inv
    <2> QED
      BY <2>2, <2>3
  <1>6. CASE Stat
    BY <1>6, Failed, Unchanged DEF Stat, Statuses
  <1>7. CASE BadLine
    BY <1>7, Failed DEF BadLine, Statuses
  <1>8. CASE UNCHANGED vars
    <2>1. UNCHANGED <<disk, nodes, had_error, out>>
      BY <1>8 DEF vars
    <2> QED
      BY <2>1, NothingChanged DEF Inv, AnswerOK
  <1> QED
    BY <1>1, <1>2, <1>3, <1>4, <1>5, <1>6, <1>7, <1>8 DEF Next, Mkdir, Create

LEMMA Invariant == Spec => []Inv
  BY InvInit, InvNext, PTL DEF Spec

(* Types; a directory has no blocks, a file has as many as its size needs, and no block  *)
(* holds more than block_size bytes, on every disk and after all series of commands.   *)
THEOREM TypeCorrect == Spec => []TypeOK
  BY Invariant, InvTypes, PTL

(* No series of commands, failing ones and failing allocations included, leaks a block,  *)
(* gives one to two files, or leaves the bitmap and the data of the disk apart.        *)
THEOREM BlocksAlwaysOwned == Spec => []BlocksOwned
  BY Invariant, PTL DEF Inv, FsOK

(* No command cuts off a part of the tree or lets an invalid name into it.              *)
THEOREM TreeAlwaysConnected == Spec => []TreeConnected
  BY Invariant, PTL DEF Inv, FsOK
--------------------------------------------------------------------------------
(* Contents.  A node holds c when its size is that of c, its blocks are the pieces of c, *)
(* and their number did not wrap.                                                  *)
Holds(p, c) ==
    /\ c \in Seq(Range(c))
    /\ c = << >> \/ Fits(Len(c))
    /\ nodes[p].size = Len(c)
    /\ \A i \in 1..Len(nodes[p].blocks) : block_data[nodes[p].blocks[i]] = Chunk(c, i)
ContentsHeld == \A p \in DOMAIN nodes : \E c \in Contents \cup {<< >>} : Holds(p, c)

(* A nonempty set of naturals has a least element.                                 *)
Less == {x \in Nat \X Nat : x[1] < x[2]}

LEMMA LeastElement ==
    ASSUME NEW S \in SUBSET Nat, S # {}
    PROVE  \E x \in S : \A y \in S : x <= y
  <1>1. IsWellFoundedOn(Less, Nat)
    BY NatLessThanWellFounded DEF OpToRel, Less
  <1>2. PICK x \in S : \A y \in S : <<y, x>> \notin Less
    BY <1>1, WFMin
  <1>3. ASSUME NEW y \in S PROVE x <= y
    <2>1. ~(y < x)
      BY <1>2 DEF Less
    <2> QED
      BY <2>1
  <1> QED
    BY <1>3

(* The pieces of n bytes reach to the end of them.                                 *)
LEMMA PiecesCover ==
    ASSUME NEW n \in Nat, NEW b \in Nat, b > 0
    PROVE  n <= ((n + b - 1) \div b) * b
  <1> DEFINE x == n + b - 1
             k == x \div b
             r == x % b
  <1>1. x \in Nat
    OBVIOUS
  <1> HIDE DEF x
  <1>2. k \in Nat /\ r \in Nat /\ r < b /\ x = k * b + r /\ k * b \in Nat
    BY <1>1
  <1> HIDE DEF k, r
  <1>3. x < k * b + b
    BY <1>1, <1>2
  <1>4. n <= k * b
    BY <1>2, <1>3 DEF x
  <1> QED
    BY <1>4 DEF k, x

(* What is read when every step appends the data of one more block.                  *)
Joined(m, bs, data) ==
    LET read[k \in 0..m] == IF k = 0 THEN << >> ELSE read[k - 1] \o data[bs[k]] IN read[m]

LEMMA ReadIs ==
    ASSUME NEW m \in Nat, NEW bs, NEW data, NEW r, DOMAIN r = 0..m, r[0] = << >>,
           r = [k \in DOMAIN r |-> r[k]],
           \A k \in 1..m : r[k] = r[k - 1] \o data[bs[k]]
    PROVE  Joined(m, bs, data) = r[m]
  <1> DEFINE Reads(f) == f = [k \in 0..m |-> IF k = 0 THEN << >> ELSE f[k - 1] \o data[bs[k]]]
  <1>1. Reads(r)
    <2>1. ASSUME NEW k \in 0..m
          PROVE  r[k] = IF k = 0 THEN << >> ELSE r[k - 1] \o data[bs[k]]
      <3>1. CASE k = 0
        BY <3>1
      <3>2. CASE k # 0
        <4>1. k \in 1..m
          BY <3>2
        <4> QED
          BY <3>2, <4>1
      <3> QED
        BY <3>1, <3>2
    <2> QED
      BY <2>1
  <1>2. ASSUME NEW f, Reads(f) PROVE f[m] = r[m]
    <2> DEFINE Differs == {k \in 0..m : f[k] # r[k]}
    <2>1. ASSUME NEW k \in Differs, \A j \in Differs : k <= j PROVE FALSE
      <3>1. CASE k = 0
        BY <1>2, <2>1, <3>1
      <3>2. CASE k # 0
        <4>1. k \in 1..m /\ k - 1 \in 0..m /\ ~(k <= k - 1)
          BY <3>2
        <4>2. f[k - 1] = r[k - 1]
          BY <2>1, <4>1
        <4>3. f[k] = f[k - 1] \o data[bs[k]]
          BY <1>2, <3>2, <4>1
        <4> QED
          BY <4>1, <4>2, <4>3
      <3> QED
        BY <3>1, <3>2
    <2>2. Differs \in SUBSET Nat
      OBVIOUS
    <2> HIDE DEF Differs
    <2>3. Differs = {}
      BY <2>1, <2>2, LeastElement
    <2> QED
      BY <2>3 DEF Differs
  <1>3. Joined(m, bs, data) = (CHOOSE f : Reads(f))[m]
    BY DEF Joined
  <1> HIDE DEF Reads
  <1>4. Reads(CHOOSE f : Reads(f))
    BY <1>1
  <1> QED
    BY <1>2, <1>3, <1>4

(* A read of a node answers what the node holds.                                    *)
LEMMA ContentIs ==
    ASSUME DiskOK, Mounted, NEW p, NodeOK(p), NEW c, Holds(p, c)
    PROVE  ContentOf(p) = c
  <1> DEFINE b == block_size
             n == Len(c)
             bs == nodes[p].blocks
             m == Len(bs)
             Upto(k) == IF k * b < n THEN k * b ELSE n
             r == [k \in 0..m |-> SubSeq(c, 1, Upto(k))]
  <1>1. b \in Nat /\ b > 0 /\ b <= MaxInt /\ c \in Seq(Range(c)) /\ n \in Nat
    BY DEF DiskOK, Holds
  <1>2. m = RequiredBlocks(n) /\ m \in Nat /\ (n > 0 => m = (n + b - 1) \div b)
    <2>1. n = 0 \/ Fits(n)
      <3>1. Len(<< >>) = 0
        OBVIOUS
      <3> QED
        BY <3>1 DEF Holds
    <2>2. nodes[p].block_count = RequiredBlocks(n) /\ m = Counted(nodes[p].block_count)
      BY DEF NodeOK, Holds
    <2>3. RequiredBlocks(n) \in Nat /\ (n > 0 => RequiredBlocks(n) = (n + b - 1) \div b)
      <3> HIDE DEF n
      <3>1. CASE n = 0
        BY <3>1 DEF RequiredBlocks
      <3>2. CASE n > 0
        <4>1. Fits(n) /\ n <= MaxInt
          BY <1>1, <2>1, <3>2, AssumedInt DEF Fits
        <4> QED
          BY <1>1, <3>2, <4>1, RequiredFacts
      <3> QED
        BY <1>1, <3>1, <3>2
    <2> HIDE DEF n, m, b
    <2>4. Counted(RequiredBlocks(n)) = RequiredBlocks(n)
      BY <2>3 DEF Counted
    <2> QED
      BY <2>2, <2>3, <2>4
  <1>3. m \in Nat
    BY <1>2
  <1>4. \A k \in 1..m : block_data[bs[k]] = SubSeq(c, (k - 1) * b + 1, Upto(k))
    BY DEF Holds, Chunk
  <1>5. \A k \in 1..m : (k - 1) * b \in Nat /\ (k - 1) * b < n /\ k * b = (k - 1) * b + b
    <2>1. CASE n = 0
      BY <1>2, <2>1 DEF RequiredBlocks
    <2>2. CASE n > 0
      <3>1. m = (n + b - 1) \div b
        BY <1>2, <2>2
      <3> HIDE DEF n, m, b
      <3> QED
        BY <1>1, <2>2, <3>1, Pieces
    <2> QED
      BY <1>1, <2>1, <2>2
  <1>6. m * b \in Nat /\ n <= m * b
    <2>1. CASE n = 0
      <3>1. m = 0
        BY <1>2, <2>1 DEF RequiredBlocks
      <3> HIDE DEF m
      <3> QED
        BY <1>1, <2>1, <3>1
    <2>2. CASE n > 0
      <3>1. m = (n + b - 1) \div b
        BY <1>2, <2>2
      <3> HIDE DEF n, m, b
      <3>2. m * b \in Nat
        BY <1>1, <1>3
      <3> QED
        BY <1>1, <3>1, <3>2, PiecesCover
    <2> QED
      BY <1>1, <2>1, <2>2
  <1> HIDE DEF b, n, bs, m
  <1>7. Upto(0) = 0 /\ Upto(m) = n
    BY <1>1, <1>6
  <1>8. r[0] = << >> /\ r[m] = c
    <2>1. 0 \in 0..m /\ m \in 0..m
      BY <1>3
    <2>2. SubSeq(c, 1, 0) = << >>
      BY SubSeqEmpty
    <2>3. SubSeq(c, 1, n) = c
      BY <1>1, SubSeqFull DEF n
    <2> QED
      BY <1>7, <2>1, <2>2, <2>3
  <1>9. ASSUME NEW k \in 1..m PROVE r[k] = r[k - 1] \o block_data[bs[k]]
    <2>1. k \in 0..m /\ k - 1 \in 0..m
      BY <1>3
    <2>2. r[k] = SubSeq(c, 1, Upto(k)) /\ r[k - 1] = SubSeq(c, 1, Upto(k - 1))
      BY <2>1
    <2>3. Upto(k - 1) = (k - 1) * b
      BY <1>5
    <2>4. (k - 1) * b \in 0..n /\ Upto(k) \in (k - 1) * b .. n
      BY <1>1, <1>5
    <2> DEFINE lo == (k - 1) * b
               hi == Upto(k)
    <2> HIDE DEF lo, hi
    <2>5. SubSeq(c, 1, lo) \o SubSeq(c, lo + 1, hi) = SubSeq(c, 1, hi)
      <3>1. 1 \in 1..Len(c) + 1 /\ lo \in 1 - 1..Len(c) /\ hi \in lo..Len(c)
        BY <1>1, <2>4 DEF lo, hi, n
      <3> QED
        BY <1>1, <3>1, ConcatAdjacentSubSeq
    <2> QED
      BY <1>4, <2>2, <2>3, <2>5 DEF lo, hi
  <1>10. DOMAIN r = 0..m /\ r = [k \in DOMAIN r |-> r[k]]
    OBVIOUS
  <1> HIDE DEF r
  <1>11. Joined(m, bs, block_data) = r[m]
    BY <1>3, <1>8, <1>9, <1>10, ReadIs
  <1>12. ContentOf(p) = Joined(m, bs, block_data)
    BY DEF ContentOf, Joined, bs, m
  <1> QED
    BY <1>8, <1>11, <1>12
--------------------------------------------------------------------------------
(* What the commands leave in the nodes.                                            *)
Kept(p) == \A c : Holds(p, c) => Holds(p, c)'

LEMMA KeptWhen ==
    ASSUME NEW p, nodes'[p] = nodes[p], block_size' = block_size,
           \A i \in 1..Len(nodes[p].blocks) :
              block_data'[nodes[p].blocks[i]] = block_data[nodes[p].blocks[i]]
    PROVE  Kept(p)
  BY DEF Kept, Holds, Chunk, Fits

LEMMA CreateHolds ==
    ASSUME NEW p, NEW node \in {Directory, EmptyFile}, p \notin DOMAIN nodes,
           nodes' = [r \in DOMAIN nodes \cup {p} |-> IF r = p THEN node ELSE nodes[r]],
           UNCHANGED disk
    PROVE  /\ \A q \in DOMAIN nodes : Kept(q)
           /\ Holds(p, << >>)'
  <1>1. block_size' = block_size /\ block_data' = block_data
    BY DEF disk
  <1>2. nodes'[p] = node /\ \A q \in DOMAIN nodes : nodes'[q] = nodes[q]
    OBVIOUS
  <1>3. \A q \in DOMAIN nodes : Kept(q)
    BY <1>1, <1>2, KeptWhen
  <1>4. nodes'[p].size = 0 /\ nodes'[p].blocks = << >>
    BY <1>2 DEF Directory, EmptyFile
  <1>5. << >> \in Seq(Range(<< >>)) /\ Len(<< >>) = 0
    OBVIOUS
  <1>6. Holds(p, << >>)'
    BY <1>4, <1>5 DEF Holds
  <1> QED
    BY <1>3, <1>6

(* The data in the blocks of the other nodes is not touched by a command on a file.      *)
LEMMA OthersKept ==
    ASSUME FsOK, NEW path \in FileNodes, block_size' = block_size, NEW gone,
           \A q \in FileNodes \ {path} : gone \cap Range(nodes[q].blocks) = {},
           \A b \in Blocks \ (gone \cup Range(nodes[path].blocks)) : block_data'[b] = block_data[b]
    PROVE  \A q \in DOMAIN nodes \ {path} : nodes'[q] = nodes[q] => Kept(q)
  <1> SUFFICES ASSUME NEW q \in DOMAIN nodes \ {path}, nodes'[q] = nodes[q] PROVE Kept(q)
    OBVIOUS
  <1>1. /\ nodes[q] \in NodeType
        /\ Len(nodes[q].blocks) = Counted(RequiredBlocks(nodes[q].size))
    BY DEF FsOK, NodesOK, NodeOK
  <1>2. CASE q \notin FileNodes
    <2>1. nodes[q].type = "dir" /\ nodes[q].size = 0
      BY <1>1, <1>2 DEF FsOK, NodesOK, NodeOK, NodeType, FileNodes
    <2>2. Len(nodes[q].blocks) = 0
      BY <1>1, <2>1 DEF RequiredBlocks, Counted
    <2> QED
      BY <2>2, KeptWhen
  <1>3. CASE q \in FileNodes
    <2>1. nodes[q].blocks \in Seq(Blocks)
      BY <1>1 DEF NodeType
    <2>2. Range(nodes[q].blocks) \cap (gone \cup Range(nodes[path].blocks)) = {}
      BY <1>3 DEF FsOK, BlocksOwned
    <2>3. \A i \in 1..Len(nodes[q].blocks) :
             nodes[q].blocks[i] \in Blocks /\ nodes[q].blocks[i] \in Range(nodes[q].blocks)
      BY <2>1 DEF Range
    <2>4. \A i \in 1..Len(nodes[q].blocks) :
             block_data'[nodes[q].blocks[i]] = block_data[nodes[q].blocks[i]]
      BY <2>2, <2>3
    <2> QED
      BY <2>4, KeptWhen
  <1> QED
    BY <1>2, <1>3

LEMMA DeleteHolds ==
    ASSUME FsOK, NEW path \in FileNodes,
           block_data' = [b \in Blocks |-> IF b \in Range(nodes[path].blocks) THEN NoData
                                           ELSE block_data[b]],
           nodes' = [p \in DOMAIN nodes \ {path} |-> nodes[p]],
           block_size' = block_size
    PROVE  \A q \in DOMAIN nodes \ {path} : Kept(q)
  <1>1. \A q \in DOMAIN nodes \ {path} : nodes'[q] = nodes[q]
    OBVIOUS
  <1>2. \A b \in Blocks \ ({} \cup Range(nodes[path].blocks)) : block_data'[b] = block_data[b]
    OBVIOUS
  <1>3. \A q \in FileNodes \ {path} : {} \cap Range(nodes[q].blocks) = {}
    OBVIOUS
  <1> QED
    BY <1>1, <1>2, <1>3, OthersKept

LEMMA WriteHolds ==
    ASSUME FsOK, NEW path \in FileNodes, Mounted, NEW c \in Contents,
           NEW bs \in [1..RequiredBlocks(Len(c)) -> Blocks], FirstFit(Released(path), bs),
           block_data' = [b \in Blocks |->
                            IF b \in Range(bs)
                            THEN Chunk(c, CHOOSE i \in DOMAIN bs : bs[i] = b)
                            ELSE IF b \in Range(nodes[path].blocks) THEN NoData ELSE block_data[b]],
           nodes' = [nodes EXCEPT ![path].size = Len(c), ![path].blocks = bs,
                                  ![path].block_count = RequiredBlocks(Len(c))],
           block_size' = block_size, Fits(Len(c))
    PROVE  /\ \A q \in DOMAIN nodes \ {path} : Kept(q)
           /\ Holds(path, c)'
  <1>1. path \in DOMAIN nodes /\ nodes[path] \in NodeType
    BY DEF FsOK, NodesOK, NodeOK, FileNodes
  <1>2. /\ c \in Seq(Range(c)) /\ Len(c) \in Nat /\ Len(c) <= MaxInt
        /\ block_size \in Nat /\ block_size > 0 /\ block_size <= MaxInt
    BY AssumedContent DEF FsOK, DiskOK
  <1>3. /\ bs \in Seq(Blocks) /\ IsInjective(bs)
        /\ \A b \in Range(bs) : b \in Blocks /\ ~Released(path)[b]
    <2>1. RequiredBlocks(Len(c)) \in Int
      BY <1>2, RequiredFacts
    <2> QED
      BY <2>1, FirstFitFacts
  <1>4. /\ \A q \in DOMAIN nodes \ {path} : nodes'[q] = nodes[q]
        /\ nodes'[path].size = Len(c) /\ nodes'[path].blocks = bs
    BY <1>1 DEF NodeType
  <1>5. \A q \in DOMAIN nodes \ {path} : Kept(q)
    <2>1. \A b \in Blocks \ (Range(bs) \cup Range(nodes[path].blocks)) :
             block_data'[b] = block_data[b]
      OBVIOUS
    <2>2. \A q \in FileNodes \ {path} : Range(bs) \cap Range(nodes[q].blocks) = {}
      BY <1>3, ReleasedFacts
    <2> QED
      BY <1>4, <2>1, <2>2, OthersKept
  <1>6. ASSUME NEW i \in 1..Len(bs) PROVE block_data'[bs[i]] = Chunk(c, i)
    <2> DEFINE S == Blocks
    <2>0. ASSUME NEW s \in Seq(S), NEW k \in 1..Len(s)
          PROVE  DOMAIN s = 1..Len(s) /\ s[k] \in S /\ s[k] \in Range(s)
      <3> HIDE DEF S
      <3> QED BY <2>0 DEF Range
    <2>1. DOMAIN bs = 1..Len(bs) /\ bs[i] \in Range(bs) /\ bs[i] \in Blocks
      <3>1. bs \in Seq(S) /\ i \in 1..Len(bs)
        BY <1>3, <1>6
      <3> QED BY <3>1, <2>0
    <2>2. \A j \in DOMAIN bs : bs[j] = bs[i] => j = i
      BY <1>3, <2>1 DEF IsInjective
    <2>3. (CHOOSE j \in DOMAIN bs : bs[j] = bs[i]) = i
      BY <2>1, <2>2
    <2>4. block_data'[bs[i]] = Chunk(c, CHOOSE j \in DOMAIN bs : bs[j] = bs[i])
      BY <2>1
    <2> QED
      BY <2>3, <2>4
  <1>7. \A i : Chunk(c, i)' = Chunk(c, i)
    BY DEF Chunk
  <1>8. \A i \in 1..Len(bs) : block_data'[bs[i]] = Chunk(c, i)'
    BY <1>6, <1>7
  <1>9. Holds(path, c)'
    <2>1. Fits(Len(c))'
      BY DEF Fits
    <2> QED
      BY <1>2, <1>4, <1>8, <2>1 DEF Holds
  <1> QED
    BY <1>5, <1>9
--------------------------------------------------------------------------------
(* The store that the tree and the disk stand for.                                   *)
Stored == [p \in DOMAIN nodes |-> [type |-> nodes[p].type, content |-> ContentOf(p)]]

(* The inductive invariant of the refinement: a tree has a root, and each of its files    *)
(* holds a content on the disk.                                                     *)
Rooted == DOMAIN nodes # {} => Mounted
HeldOK == FsOK /\ Rooted /\ ContentsHeld

LEMMA Known ==
    HeldOK => \A p \in DOMAIN nodes :
                 /\ \A c : Holds(p, c) => ContentOf(p) = c
                 /\ Holds(p, ContentOf(p))
                 /\ ContentOf(p) \in Contents \cup {<< >>}
  <1> SUFFICES ASSUME HeldOK, NEW p \in DOMAIN nodes
               PROVE  /\ \A c : Holds(p, c) => ContentOf(p) = c
                      /\ Holds(p, ContentOf(p))
                      /\ ContentOf(p) \in Contents \cup {<< >>}
    OBVIOUS
  <1>1. DiskOK /\ Mounted /\ NodeOK(p)
    BY DEF HeldOK, FsOK, NodesOK, Rooted
  <1>2. \A c : Holds(p, c) => ContentOf(p) = c
    BY <1>1, ContentIs
  <1>3. PICK c \in Contents \cup {<< >>} : Holds(p, c)
    BY DEF HeldOK, ContentsHeld
  <1> QED
    BY <1>2, <1>3

LEMMA KnownNext ==
    HeldOK' => \A p \in DOMAIN nodes' :
                  /\ \A c : Holds(p, c)' => ContentOf(p)' = c
                  /\ Holds(p, ContentOf(p))'
  <1>1. (HeldOK => \A p \in DOMAIN nodes :
                     /\ \A c : Holds(p, c) => ContentOf(p) = c
                     /\ Holds(p, ContentOf(p))
                     /\ ContentOf(p) \in Contents \cup {<< >>})'
    BY Known, PTL
  <1> QED
    BY <1>1

LEMMA HeldNext ==
    ASSUME ContentsHeld, FsOK', Rooted',
           \A q \in DOMAIN nodes' : \/ q \in DOMAIN nodes /\ Kept(q)
                                    \/ \E c \in Contents \cup {<< >>} : Holds(q, c)'
    PROVE  HeldOK'
  BY DEF HeldOK, ContentsHeld, Kept

LEMMA StoredAfter ==
    ASSUME HeldOK, HeldOK', NEW q \in DOMAIN nodes, q \in DOMAIN nodes',
           nodes'[q].type = nodes[q].type, Kept(q)
    PROVE  Stored'[q] = Stored[q]
  <1>1. Holds(q, ContentOf(q))
    BY Known
  <1>2. ContentOf(q)' = ContentOf(q)
    BY <1>1, KnownNext DEF Kept
  <1> QED
    BY <1>2 DEF Stored

LEMMA SameStored ==
    ASSUME HeldOK, UNCHANGED <<disk, nodes>>
    PROVE  HeldOK' /\ Stored' = Stored
  <1>1. block_size' = block_size /\ block_data' = block_data /\ nodes' = nodes
    BY DEF disk
  <1>2. \A q \in DOMAIN nodes : Kept(q)
    BY <1>1, KeptWhen
  <1>3. FsOK' /\ Rooted'
    BY <1>1, NothingChanged DEF HeldOK, Rooted, Mounted
  <1>4. HeldOK'
    BY <1>1, <1>2, <1>3, HeldNext DEF HeldOK
  <1>5. \A q \in DOMAIN nodes : Stored'[q] = Stored[q]
    BY <1>1, <1>2, <1>4, StoredAfter
  <1> QED
    BY <1>1, <1>4, <1>5 DEF Stored

LEMMA CreateStored ==
    ASSUME HeldOK, FsOK', NEW p, NEW node \in {Directory, EmptyFile}, p \notin DOMAIN nodes,
           Mounted,
           nodes' = [r \in DOMAIN nodes \cup {p} |-> IF r = p THEN node ELSE nodes[r]],
           UNCHANGED disk
    PROVE  /\ HeldOK'
           /\ Stored' = [r \in DOMAIN Stored \cup {p} |->
                           IF r = p THEN [type |-> node.type, content |-> << >>] ELSE Stored[r]]
  <1>1. (\A q \in DOMAIN nodes : Kept(q)) /\ Holds(p, << >>)'
    BY CreateHolds
  <1>2. /\ DOMAIN nodes' = DOMAIN nodes \cup {p} /\ nodes'[p] = node
        /\ \A q \in DOMAIN nodes : nodes'[q] = nodes[q]
    BY Extended
  <1>3. Rooted'
    BY <1>2 DEF Rooted, Mounted
  <1>4. HeldOK'
    BY <1>1, <1>2, <1>3, HeldNext DEF HeldOK
  <1>5. \A q \in DOMAIN nodes : Stored'[q] = Stored[q]
    BY <1>1, <1>2, <1>4, StoredAfter
  <1>6. Stored'[p] = [type |-> node.type, content |-> << >>]
    <2>1. ContentOf(p)' = << >>
      BY <1>1, <1>2, <1>4, KnownNext
    <2> QED
      BY <1>2, <2>1 DEF Stored
  <1>7. DOMAIN Stored' = DOMAIN nodes \cup {p} /\ DOMAIN Stored = DOMAIN nodes
    BY <1>2 DEF Stored
  <1>8. Stored' = [r \in DOMAIN Stored' |-> Stored'[r]]
    BY DEF Stored
  <1> HIDE DEF Stored
  <1>9. \A r \in DOMAIN Stored' :
           Stored'[r] = IF r = p THEN [type |-> node.type, content |-> << >>] ELSE Stored[r]
    BY <1>5, <1>6, <1>7
  <1>10. [r \in DOMAIN Stored' |-> Stored'[r]]
           = [r \in DOMAIN Stored \cup {p} |->
                IF r = p THEN [type |-> node.type, content |-> << >>] ELSE Stored[r]]
    BY <1>7, <1>9
  <1> QED
    BY <1>4, <1>8, <1>10

LEMMA DeleteStored ==
    ASSUME HeldOK, FsOK', NEW path \in FileNodes, path # Root,
           block_data' = [b \in Blocks |-> IF b \in Range(nodes[path].blocks) THEN NoData
                                           ELSE block_data[b]],
           nodes' = [p \in DOMAIN nodes \ {path} |-> nodes[p]],
           block_size' = block_size
    PROVE  HeldOK' /\ Stored' = [p \in DOMAIN Stored \ {path} |-> Stored[p]]
  <1>1. \A q \in DOMAIN nodes \ {path} : Kept(q)
    BY DeleteHolds DEF HeldOK
  <1>2. DOMAIN nodes' = DOMAIN nodes \ {path} /\ \A q \in DOMAIN nodes' : nodes'[q] = nodes[q]
    OBVIOUS
  <1>3. Rooted'
    BY <1>2 DEF HeldOK, Rooted, Mounted, FileNodes
  <1>4. HeldOK'
    BY <1>1, <1>2, <1>3, HeldNext DEF HeldOK
  <1>5. \A q \in DOMAIN nodes \ {path} : Stored'[q] = Stored[q]
    BY <1>1, <1>2, <1>4, StoredAfter
  <1>6. DOMAIN Stored' = DOMAIN Stored \ {path} /\ DOMAIN Stored = DOMAIN nodes
    BY <1>2 DEF Stored
  <1>7. Stored' = [r \in DOMAIN Stored' |-> Stored'[r]]
    BY DEF Stored
  <1> HIDE DEF Stored
  <1> QED
    BY <1>4, <1>5, <1>6, <1>7

LEMMA WriteStored ==
    ASSUME HeldOK, FsOK', NEW path \in FileNodes, Mounted, NEW c \in Contents,
           NEW bs \in [1..RequiredBlocks(Len(c)) -> Blocks], FirstFit(Released(path), bs),
           block_data' = [b \in Blocks |->
                            IF b \in Range(bs)
                            THEN Chunk(c, CHOOSE i \in DOMAIN bs : bs[i] = b)
                            ELSE IF b \in Range(nodes[path].blocks) THEN NoData ELSE block_data[b]],
           nodes' = [nodes EXCEPT ![path].size = Len(c), ![path].blocks = bs,
                                  ![path].block_count = RequiredBlocks(Len(c))],
           block_size' = block_size, Fits(Len(c))
    PROVE  HeldOK' /\ Stored' = [Stored EXCEPT ![path] = [type |-> "file", content |-> c]]
  <1>1. (\A q \in DOMAIN nodes \ {path} : Kept(q)) /\ Holds(path, c)'
    BY WriteHolds DEF HeldOK
  <1>2. /\ path \in DOMAIN nodes /\ nodes[path] \in NodeType /\ nodes[path].type = "file"
        /\ DOMAIN nodes' = DOMAIN nodes
        /\ \A q \in DOMAIN nodes \ {path} : nodes'[q] = nodes[q]
    BY DEF HeldOK, FsOK, NodesOK, NodeOK, FileNodes
  <1>3. nodes'[path].type = "file"
    BY <1>2 DEF NodeType
  <1>4. Rooted'
    BY <1>2 DEF Rooted, Mounted
  <1>5. HeldOK'
    BY <1>1, <1>2, <1>4, HeldNext DEF HeldOK
  <1>6. \A q \in DOMAIN nodes \ {path} : Stored'[q] = Stored[q]
    BY <1>1, <1>2, <1>5, StoredAfter
  <1>7. Stored'[path] = [type |-> "file", content |-> c]
    <2>1. ContentOf(path)' = c
      BY <1>1, <1>2, <1>5, KnownNext
    <2> QED
      BY <1>2, <1>3, <2>1 DEF Stored
  <1>8. DOMAIN Stored' = DOMAIN Stored /\ DOMAIN Stored = DOMAIN nodes
    BY <1>2 DEF Stored
  <1>9. Stored' = [r \in DOMAIN Stored' |-> Stored'[r]]
    BY DEF Stored
  <1> HIDE DEF Stored
  <1> QED
    BY <1>2, <1>5, <1>6, <1>7, <1>8, <1>9

LEMMA MkfsStored ==
    ASSUME FsOK'
    PROVE  /\ nodes' = [p \in {Root} |-> Directory]
                => HeldOK' /\ Stored' = [p \in {Root} |-> [type |-> "dir", content |-> << >>]]
           /\ nodes' = << >> => HeldOK' /\ Stored' = << >>
  <1>1. ASSUME nodes' = [p \in {Root} |-> Directory]
        PROVE  HeldOK' /\ Stored' = [p \in {Root} |-> [type |-> "dir", content |-> << >>]]
    <2>1. DOMAIN nodes' = {Root} /\ nodes'[Root] = Directory
      BY <1>1
    <2>2. << >> \in Seq(Range(<< >>)) /\ Len(<< >>) = 0
      OBVIOUS
    <2>3. Holds(Root, << >>)'
      BY <2>1, <2>2 DEF Holds, Directory
    <2>4. Rooted'
      BY <2>1 DEF Rooted, Mounted
    <2>5. HeldOK'
      BY <2>1, <2>3, <2>4 DEF HeldOK, ContentsHeld
    <2>6. ContentOf(Root)' = << >>
      BY <2>1, <2>3, <2>5, KnownNext
    <2>7. Stored' = [p \in {Root} |-> [type |-> nodes'[p].type, content |-> ContentOf(p)']]
      BY <2>1 DEF Stored
    <2> QED
      BY <2>1, <2>5, <2>6, <2>7 DEF Directory
  <1>2. ASSUME nodes' = << >> PROVE HeldOK' /\ Stored' = << >>
    <2>1. DOMAIN nodes' = {}
      BY <1>2
    <2>2. HeldOK'
      BY <2>1 DEF HeldOK, Rooted, ContentsHeld
    <2> QED
      BY <2>1, <2>2 DEF Stored
  <1> QED
    BY <1>1, <1>2
--------------------------------------------------------------------------------
(* Counting.  Block k of what p holds is the piece <<p, k>>, and n[p] blocks are its.     *)
PieceSet(P, n) == UNION {{p} \X (1..n[p]) : p \in P}

LEMMA PiecesOfBlocks ==
    ASSUME NEW P, NEW n, NEW bs, NEW B, NEW U, IsFiniteSet(U),
           \A p \in P : bs[p] \in Seq(B) /\ Len(bs[p]) = n[p] /\ IsInjective(bs[p]),
           \A p, q \in P : p # q => Range(bs[p]) \cap Range(bs[q]) = {},
           \A b : b \in U <=> \E p \in P : b \in Range(bs[p])
    PROVE  IsFiniteSet(PieceSet(P, n)) /\ Cardinality(PieceSet(P, n)) = Cardinality(U)
  <1> DEFINE S == PieceSet(P, n)
             f == [x \in S |-> bs[x[1]][x[2]]]
  <1>1. \A x \in S : \E p \in P : \E k \in 1..n[p] : x = <<p, k>>
    BY DEF PieceSet
  <1>2. \A p \in P : \A k \in 1..n[p] : <<p, k>> \in S
    BY DEF PieceSet
  <1>3. \A p \in P : DOMAIN bs[p] = 1..n[p]
    OBVIOUS
  <1>4. \A p \in P : \A k \in 1..n[p] : bs[p][k] \in Range(bs[p]) /\ bs[p][k] \in U
    BY <1>3 DEF Range
  <1> HIDE DEF S
  <1>5. f \in [S -> U]
    <2> SUFFICES ASSUME NEW x \in S PROVE bs[x[1]][x[2]] \in U
      OBVIOUS
    <2>1. PICK p \in P : \E k \in 1..n[p] : x = <<p, k>>
      BY <1>1
    <2>2. PICK k \in 1..n[p] : x = <<p, k>>
      BY <2>1
    <2> QED
      BY <1>4, <2>2
  <1>6. \A x, y \in S : f[x] = f[y] => x = y
    <2>1. ASSUME NEW p \in P, NEW k \in 1..n[p], NEW q \in P, NEW m \in 1..n[q],
                 bs[p][k] = bs[q][m]
          PROVE  p = q /\ k = m
      <3>1. bs[p][k] \in Range(bs[p]) /\ bs[p][k] \in Range(bs[q])
        BY <1>4, <2>1
      <3>2. p = q
        BY <3>1
      <3>3. k = m
        BY <1>3, <2>1, <3>2 DEF IsInjective
      <3> QED
        BY <3>2, <3>3
    <2> SUFFICES ASSUME NEW x \in S, NEW y \in S, f[x] = f[y] PROVE x = y
      OBVIOUS
    <2>2. PICK p \in P : \E k \in 1..n[p] : x = <<p, k>>
      BY <1>1
    <2>3. PICK k \in 1..n[p] : x = <<p, k>>
      BY <2>2
    <2>4. PICK q \in P : \E m \in 1..n[q] : y = <<q, m>>
      BY <1>1
    <2>5. PICK m \in 1..n[q] : y = <<q, m>>
      BY <2>4
    <2>6. f[x] = bs[p][k] /\ f[y] = bs[q][m]
      BY <2>3, <2>5
    <2>7. p = q /\ k = m
      BY <2>1, <2>6
    <2> QED
      BY <2>3, <2>5, <2>7
  <1>7. \A b \in U : \E x \in S : f[x] = b
    <2> SUFFICES ASSUME NEW b \in U PROVE \E x \in S : f[x] = b
      OBVIOUS
    <2>1. PICK p \in P : b \in Range(bs[p])
      OBVIOUS
    <2>2. PICK k \in 1..n[p] : b = bs[p][k]
      BY <1>3, <2>1 DEF Range
    <2>3. <<p, k>> \in S /\ f[<<p, k>>] = b
      BY <1>2, <2>2
    <2> QED
      BY <2>3
  <1> HIDE DEF f
  <1>8. f \in Injection(S, U) /\ f \in Surjection(S, U)
    BY <1>5, <1>6, <1>7 DEF Injection, Surjection, IsInjective
  <1>9. IsFiniteSet(S) /\ Cardinality(S) = Cardinality(U)
    BY <1>8, FS_Injection
  <1> QED
    BY <1>9 DEF S

LEMMA OneMore ==
    ASSUME NEW P, NEW n, NEW p, p \notin P, n[p] \in Nat, IsFiniteSet(PieceSet(P, n))
    PROVE  Cardinality(PieceSet(P \cup {p}, n)) = Cardinality(PieceSet(P, n)) + n[p]
  <1> DEFINE S == PieceSet(P, n)
             T == {p} \X (1..n[p])
             f == [x \in T |-> x[2]]
  <1>1. PieceSet(P \cup {p}, n) = S \cup T
    BY DEF PieceSet
  <1>2. S \cap T = {}
    BY DEF PieceSet
  <1>3. IsFiniteSet(1..n[p]) /\ Cardinality(1..n[p]) = n[p]
    BY FS_Interval
  <1>4. f \in Injection(T, 1..n[p]) /\ f \in Surjection(T, 1..n[p])
    <2>1. \A k \in 1..n[p] : <<p, k>> \in T /\ f[<<p, k>>] = k
      OBVIOUS
    <2>2. \A x \in T : x = <<p, x[2]>> /\ f[x] = x[2] /\ x[2] \in 1..n[p]
      OBVIOUS
    <2>3. f = [x \in T |-> f[x]]
      OBVIOUS
    <2> HIDE DEF T, f
    <2>4. f \in [T -> 1..n[p]]
      BY <2>2, <2>3
    <2>5. \A x, y \in T : f[x] = f[y] => x = y
      BY <2>2
    <2>6. DOMAIN f = T
      BY <2>4
    <2>7. IsInjective(f)
      BY <2>5, <2>6 DEF IsInjective
    <2> QED
      BY <2>1, <2>4, <2>7 DEF Injection, Surjection
  <1> HIDE DEF S, T, f
  <1>5. IsFiniteSet(T) /\ Cardinality(T) = n[p]
    BY <1>3, <1>4, FS_Injection
  <1>6. Cardinality(S \cup T) = Cardinality(S) + Cardinality(T) - 0
    BY <1>2, <1>5, FS_Union, FS_EmptySet DEF S
  <1>7. Cardinality(S) \in Nat
    BY FS_CardinalityType DEF S
  <1>8. Cardinality(S \cup T) = Cardinality(S) + n[p]
    BY <1>5, <1>6, <1>7
  <1> QED
    BY <1>1, <1>8 DEF S

(* The pieces of all nodes are as many as the blocks in use, those of the nodes beside a    *)
(* file as many as the blocks that stay in use when it is released.                    *)
Sizes == [p \in DOMAIN nodes |-> Len(nodes[p].blocks)]

LEMMA NodePieces ==
    ASSUME HeldOK, NEW P \in SUBSET DOMAIN nodes
    PROVE  LET used == {b \in Blocks : \E p \in P : b \in Range(nodes[p].blocks)}
           IN  /\ IsFiniteSet(PieceSet(P, Sizes))
               /\ Cardinality(PieceSet(P, Sizes)) = Cardinality(used)
  <1> DEFINE bs == [p \in DOMAIN nodes |-> nodes[p].blocks]
             used == {b \in Blocks : \E p \in P : b \in Range(nodes[p].blocks)}
  <1>1. ASSUME NEW p \in P
        PROVE  bs[p] = nodes[p].blocks /\ bs[p] \in Seq(Blocks) /\ Sizes[p] = Len(bs[p])
    BY DEF HeldOK, FsOK, NodesOK, NodeOK, NodeType, Sizes
  <1>2. ASSUME NEW p \in P PROVE p \in FileNodes \/ bs[p] = << >>
    <2>1. p \in FileNodes \/ Len(bs[p]) = 0
      BY <1>1 DEF HeldOK, FsOK, NodesOK, NodeOK, NodeType, FileNodes, RequiredBlocks, Counted
    <2> QED
      BY <1>1, <2>1
  <1>3. IsInjective(<< >>) /\ Range(<< >>) = {}
    BY DEF IsInjective, Range
  <1>4. \A p \in P : IsInjective(bs[p])
    BY <1>1, <1>2, <1>3 DEF HeldOK, FsOK, BlocksOwned
  <1>5. \A p, q \in P : p # q => Range(bs[p]) \cap Range(bs[q]) = {}
    BY <1>1, <1>2, <1>3 DEF HeldOK, FsOK, BlocksOwned
  <1>6. \A p \in P : Range(bs[p]) \subseteq Blocks
    <2>1. ASSUME NEW S, NEW s \in Seq(S) PROVE Range(s) \subseteq S
      BY DEF Range
    <2> QED
      BY <1>1, <2>1
  <1>7. IsFiniteSet(used)
    <2>1. block_count \in Nat
      BY DEF HeldOK, FsOK, DiskOK
    <2>2. IsFiniteSet(Blocks)
      BY <2>1, FS_Interval DEF Blocks
    <2> QED
      BY <2>2, FS_Subset
  <1>8. \A b : b \in used <=> \E p \in P : b \in Range(bs[p])
    BY <1>1, <1>6
  <1> HIDE DEF bs, used
  <1>9. \A p \in P : bs[p] \in Seq(Blocks) /\ Len(bs[p]) = Sizes[p] /\ IsInjective(bs[p])
    BY <1>1, <1>4
  <1>10. IsFiniteSet(PieceSet(P, Sizes)) /\ Cardinality(PieceSet(P, Sizes)) = Cardinality(used)
    BY <1>5, <1>7, <1>8, <1>9, PiecesOfBlocks
  <1> QED
    BY <1>10 DEF used

LEMMA UsedPieces ==
    ASSUME HeldOK
    PROVE  /\ Cardinality(FreeBlocks) \in Nat
           /\ Cardinality(PieceSet(DOMAIN nodes, Sizes)) = block_count - Cardinality(FreeBlocks)
  <1> DEFINE used == {b \in Blocks : \E p \in DOMAIN nodes : b \in Range(nodes[p].blocks)}
  <1>1. block_count \in Nat
    BY DEF HeldOK, FsOK, DiskOK
  <1>2. IsFiniteSet(Blocks) /\ Cardinality(Blocks) = block_count
    BY <1>1, FS_Interval DEF Blocks
  <1>3. \A b \in Blocks : b \in used <=> block_used[b]
    <2>1. ASSUME NEW p \in DOMAIN nodes, p \notin FileNodes PROVE Range(nodes[p].blocks) = {}
      <3>1. nodes[p].blocks \in Seq(Blocks) /\ Len(nodes[p].blocks) = 0
        BY <2>1 DEF HeldOK, FsOK, NodesOK, NodeOK, NodeType, FileNodes, RequiredBlocks, Counted
      <3> QED
        BY <3>1 DEF Range
    <2>2. FileNodes \subseteq DOMAIN nodes
      BY DEF FileNodes
    <2> QED
      BY <2>1, <2>2 DEF HeldOK, FsOK, BlocksOwned
  <1>4. Cardinality(PieceSet(DOMAIN nodes, Sizes)) = Cardinality(used)
    BY NodePieces
  <1> HIDE DEF used
  <1>5. used \subseteq Blocks
    BY DEF used
  <1>6. FreeBlocks \subseteq Blocks /\ used \cap FreeBlocks = {} /\ used \cup FreeBlocks = Blocks
    BY <1>3, <1>5 DEF FreeBlocks
  <1>7. IsFiniteSet(used) /\ IsFiniteSet(FreeBlocks)
    BY <1>2, <1>5, <1>6, FS_Subset
  <1>8. Cardinality(used) \in Nat /\ Cardinality(FreeBlocks) \in Nat
    BY <1>7, FS_CardinalityType
  <1>9. block_count = Cardinality(used) + Cardinality(FreeBlocks) - 0
    BY <1>2, <1>6, <1>7, FS_Union, FS_EmptySet
  <1> QED
    BY <1>1, <1>4, <1>8, <1>9

(* Where no sum has wrapped, block_count is the number of blocks that the size needs.     *)
LEMMA SizeFacts ==
    ASSUME HeldOK, NEW p \in DOMAIN nodes
    PROVE  /\ nodes[p].size = 0 \/ Fits(nodes[p].size)
           /\ nodes[p].size \in Nat /\ nodes[p].size <= MaxInt
           /\ block_size \in Nat /\ block_size > 0 /\ block_size <= MaxInt
           /\ Sizes[p] \in Nat /\ Sizes[p] = Len(nodes[p].blocks)
           /\ nodes[p].block_count = Sizes[p] /\ RequiredBlocks(nodes[p].size) = Sizes[p]
  <1> DEFINE n == nodes[p].size
             m == RequiredBlocks(n)
  <1>1. n \in Nat /\ nodes[p].block_count = m /\ Sizes[p] = Counted(m)
        /\ Sizes[p] = Len(nodes[p].blocks)
    BY DEF HeldOK, FsOK, NodesOK, NodeOK, NodeType, Sizes
  <1>2. n = 0 \/ Fits(n)
    <2>1. Holds(p, ContentOf(p)) /\ Len(<< >>) = 0
      BY Known
    <2> QED
      BY <2>1 DEF Holds
  <1>3. block_size \in Nat /\ block_size > 0 /\ block_size <= MaxInt /\ MaxInt \in Nat
    BY AssumedInt DEF HeldOK, FsOK, DiskOK, Rooted
  <1>4. n <= MaxInt
    BY <1>1, <1>2, <1>3 DEF Fits
  <1>5. m \in Nat
    <2>1. CASE n = 0
      BY <2>1 DEF RequiredBlocks
    <2>2. CASE Fits(n)
      BY <1>1, <1>3, <1>4, <2>2, RequiredFacts
    <2> QED
      BY <1>2, <2>1, <2>2
  <1> HIDE DEF m, n
  <1>6. Counted(m) = m
    BY <1>5 DEF Counted
  <1> QED
    BY <1>1, <1>2, <1>3, <1>4, <1>5, <1>6 DEF m, n

LEMMA WriteFits ==
    ASSUME HeldOK, NEW path \in FileNodes, NEW n, n[path] \in Nat,
           \A p \in DOMAIN nodes \ {path} : n[p] = Sizes[p]
    PROVE  Cardinality(PieceSet(DOMAIN nodes, n)) <= block_count <=> n[path] <= Available(path)
  <1> DEFINE P == DOMAIN nodes \ {path}
             others == Cardinality(PieceSet(P, Sizes))
  <1>1. path \in DOMAIN nodes /\ P \cup {path} = DOMAIN nodes /\ path \notin P
    BY DEF FileNodes
  <1>2. Sizes[path] = Len(nodes[path].blocks) /\ Sizes[path] \in Nat
    BY <1>1 DEF HeldOK, FsOK, NodesOK, NodeOK, NodeType, Sizes
  <1>3. IsFiniteSet(PieceSet(P, Sizes)) /\ others \in Nat
    <2>1. P \in SUBSET DOMAIN nodes
      OBVIOUS
    <2> HIDE DEF P
    <2> QED
      BY <2>1, NodePieces, FS_CardinalityType
  <1>4. PieceSet(P, n) = PieceSet(P, Sizes)
    <2>1. \A p \in P : n[p] = Sizes[p]
      OBVIOUS
    <2> HIDE DEF P
    <2> QED
      BY <2>1 DEF PieceSet
  <1> HIDE DEF P
  <1>5. ASSUME NEW m, m[path] \in Nat, PieceSet(P, m) = PieceSet(P, Sizes)
        PROVE  Cardinality(PieceSet(DOMAIN nodes, m)) = others + m[path]
    BY <1>1, <1>3, <1>5, OneMore
  <1>6. /\ Cardinality(PieceSet(DOMAIN nodes, n)) = others + n[path]
        /\ Cardinality(PieceSet(DOMAIN nodes, Sizes)) = others + Sizes[path]
    BY <1>2, <1>4, <1>5
  <1>7. Cardinality(PieceSet(DOMAIN nodes, Sizes)) = block_count - Cardinality(FreeBlocks)
    BY UsedPieces
  <1>8. block_count \in Nat /\ Cardinality(FreeBlocks) \in Nat
    BY UsedPieces DEF HeldOK, FsOK, DiskOK
  <1>9. Available(path) = Cardinality(FreeBlocks) + Sizes[path]
    BY <1>1, SizeFacts DEF Available
  <1> HIDE DEF others
  <1> QED
    BY <1>2, <1>3, <1>6, <1>7, <1>8, <1>9

(* The library's operator as FileStore sees it.                                       *)
LEMMA StoreCardinality == ASSUME NEW S PROVE Store!Cardinality(S) = Cardinality(S)
  BY DEF Store!Cardinality, Cardinality

LEMMA StoreBlocks ==
    ASSUME NEW s, NEW n, \A p \in DOMAIN s : Store!BlocksFor(Len(s[p].content)) = n[p]
    PROVE  Store!BlocksOf(s) = Cardinality(PieceSet(DOMAIN s, n))
  <1>1. Store!Pieces(s) = PieceSet(DOMAIN s, n)
    BY DEF Store!Pieces, PieceSet
  <1> QED
    BY <1>1, StoreCardinality DEF Store!BlocksOf

LEMMA StoreBlocksFor ==
    ASSUME block_size \in Nat, block_size > 0, block_size <= MaxInt,
           NEW k \in Nat, k <= MaxInt, k = 0 \/ Fits(k)
    PROVE  Store!BlocksFor(k) = RequiredBlocks(k)
  <1>1. CASE k = 0
    BY <1>1 DEF Store!BlocksFor, RequiredBlocks
  <1>2. CASE k > 0
    <2>1. RequiredBlocks(k) = (k + block_size - 1) \div block_size
      BY <1>2, RequiredFacts
    <2> QED
      BY <1>2, <2>1 DEF Store!BlocksFor
  <1> QED
    BY <1>1, <1>2
--------------------------------------------------------------------------------
(* Every command as a step of the store.                                             *)
LEMMA StoreAnswer ==
    ASSUME NEW op, NEW status, NEW value, Answer(op, status, value)
    PROVE  /\ Store!Answer(op, status, value)
           /\ out'.op = op /\ out'.status = status /\ out'.value = value
  <1>1. Store!Answer(op, status, value)
    BY Zenon DEF Answer, Store!Answer
  <1> QED
    BY <1>1 DEF Answer

LEMMA StoreRefuses ==
    ASSUME NEW op, NEW status, status \notin {"ok", "space"}, Answer(op, status, NoValue),
           Stored' = Stored, UNCHANGED disk
    PROVE  Store!Next
  <1>1. /\ Store!Answer(op, status, NoValue)
        /\ out'.op = op /\ out'.status = status
    BY StoreAnswer
  <1>2. NoValue = Store!NoValue
    BY DEF NoValue, Store!NoValue
  <1>3. UNCHANGED <<block_count, block_size>>
    BY DEF disk
  <1>4. Store!Refuse
    BY <1>1, <1>2, <1>3 DEF Store!Refuse, Stored
  <1> QED
    BY <1>4 DEF Store!Next

LEMMA StoreFails ==
    ASSUME HeldOK, NEW op, NEW status, status # "space",
           Refuse(op, status) \/ OutOfMemory(op, status)
    PROVE  HeldOK' /\ Store!Next
  <1>1. UNCHANGED <<disk, nodes>>
    BY DEF Refuse, OutOfMemory
  <1>2. HeldOK' /\ Stored' = Stored /\ UNCHANGED disk
    BY <1>1, SameStored
  <1>3. \E s : s \notin {"ok", "space"} /\ Answer(op, s, NoValue)
    BY DEF Refuse, OutOfMemory
  <1> QED
    BY <1>2, <1>3, StoreRefuses

LEMMA MkfsImplements ==
    ASSUME NEW d \in Int, NEW b \in Int, b <= MaxInt, Mkfs(d, b)
    PROVE  HeldOK' /\ Store!Next
  <1>1. FsOK'
    BY MkfsStep
  <1>2. CASE /\ block_size' = b /\ block_count' = d \div b
             /\ nodes' = [p \in {Root} |-> Directory]
             /\ Answer("mkfs", "ok", NoValue)
    <2>1. HeldOK' /\ Stored' = [p \in {Root} |-> [type |-> "dir", content |-> << >>]]
      BY <1>1, <1>2, MkfsStored
    <2>2. d \div b \in Nat \ {0} /\ b \in Nat \ {0}
      <3>1. d \in Nat /\ b \in Nat /\ d > 0 /\ b > 0 /\ d % b = 0
        BY DEF Mkfs
      <3> QED
        BY <3>1
    <2>3. Store!Answer("mkfs", "ok", NoValue) /\ out'.op = "mkfs"
      BY <1>2, StoreAnswer
    <2>4. Store!Format
      BY <1>2, <2>1, <2>2, <2>3
         DEF Store!Format, Store!Directory, Store!NoValue, NoValue, Stored, Root
    <2> QED
      BY <2>1, <2>4 DEF Store!Next
  <1>3. CASE /\ block_size' = 0 /\ block_count' = 0 /\ nodes' = << >>
             /\ Answer("mkfs", "memory", NoValue)
    <2>1. HeldOK' /\ Stored' = << >>
      BY <1>1, <1>3, MkfsStored
    <2>2. Store!Answer("mkfs", "memory", NoValue)
      BY <1>3, StoreAnswer
    <2>3. Store!Format
      BY <1>3, <2>1, <2>2 DEF Store!Format, Store!NoValue, NoValue, Stored
    <2> QED
      BY <2>1, <2>3 DEF Store!Next
  <1> QED
    BY <1>2, <1>3 DEF Mkfs

LEMMA CreateImplements ==
    ASSUME HeldOK, NEW path, NEW op, NEW node,
           \/ op = "mkdir" /\ node = Directory
           \/ op = "create" /\ node = EmptyFile,
           create_child(op, path, node)
    PROVE  HeldOK' /\ Store!Next
  <1> DEFINE q == Node(ParentPath(path))
             m == Last(path)
             p == Child(path)
             made == [type |-> node.type, content |-> << >>]
  <1>1. CASE Refuse(op, CreateStatus(path)) \/ OutOfMemory(op, CreateStatus(path))
    <2>1. CreateStatus(path) # "space"
      BY DEF CreateStatus
    <2> QED
      BY <1>1, <2>1, StoreFails
  <1>2. CASE /\ CreateStatus(path) = "ok"
             /\ nodes' = [r \in DOMAIN nodes \cup {p} |-> IF r = p THEN node ELSE nodes[r]]
             /\ Answer(op, "ok", NoValue)
             /\ UNCHANGED disk
    <2>1. m \in Names /\ Resolves(ParentPath(path)) /\ nodes[q].type = "dir" /\ p \notin DOMAIN nodes
      BY <1>2 DEF CreateStatus, HasType
    <2>2. q \in DOMAIN nodes /\ Mounted /\ p = Append(q, m)
      BY <2>1, NodeFacts DEF HeldOK, FsOK, Child
    <2>3. node \in {Directory, EmptyFile}
      OBVIOUS
    <2>4. FsOK'
      BY <1>2, <2>3, CreateStep DEF HeldOK
    <2> HIDE DEF q, m, p
    <2>5. /\ HeldOK'
          /\ Stored' = [r \in DOMAIN Stored \cup {p} |-> IF r = p THEN made ELSE Stored[r]]
      <3>1. /\ p \notin DOMAIN nodes /\ Mounted /\ UNCHANGED disk
            /\ nodes' = [r \in DOMAIN nodes \cup {p} |-> IF r = p THEN node ELSE nodes[r]]
        BY <1>2, <2>1, <2>2
      <3> QED
        BY <2>3, <2>4, <3>1, CreateStored
    <2>6. \/ op = "mkdir" /\ made = Store!Directory
          \/ op = "create" /\ made = Store!File(<< >>)
      BY DEF Directory, EmptyFile, Store!Directory, Store!File
    <2> HIDE DEF made
    <2>7. Store!Answer(op, "ok", Store!NoValue)
      BY <1>2, StoreAnswer DEF NoValue, Store!NoValue
    <2>8. UNCHANGED <<block_count, block_size>>
      BY <1>2 DEF disk
    <2>9. DOMAIN Stored = DOMAIN nodes /\ q \in Store!Dirs
      BY <2>1, <2>2 DEF Stored, Store!Dirs
    <2>10. Store!Make(q, m, op, made)
      BY <2>1, <2>2, <2>5, <2>7, <2>8, <2>9 DEF Store!Make, Store!NoValue, Stored
    <2> QED
      BY <2>1, <2>5, <2>6, <2>9, <2>10 DEF Store!Next
  <1> QED
    BY <1>1, <1>2 DEF create_child

LEMMA TargetFacts ==
    ASSUME HeldOK, NEW path, NEW type \in {"file", "dir"}, TargetStatus(path, type) = "ok"
    PROVE  /\ Mounted /\ Node(path) \in DOMAIN nodes /\ nodes[Node(path)].type = type
           /\ type = "file" => path \in FileNodes /\ path # Root /\ path \in Store!Files
           /\ type = "dir" => Node(path) \in Store!Dirs
  <1>1. Resolves(path) /\ HasType(path, type)
    BY DEF TargetStatus
  <1>2. Mounted /\ Node(path) \in DOMAIN nodes /\ nodes[Node(path)].type = type
    BY <1>1, NodeFacts DEF HeldOK, FsOK, HasType
  <1>3. ASSUME type = "file" PROVE path \in FileNodes /\ path # Root
    BY <1>1, <1>3, FileFacts DEF HeldOK
  <1> QED
    BY <1>2, <1>3 DEF Store!Files, Store!Dirs, FileNodes

LEMMA ReadImplements ==
    ASSUME HeldOK, NEW path, Read(path)
    PROVE  HeldOK' /\ Store!Next
  <1>1. CASE Refuse("read", TargetStatus(path, "file")) \/ OutOfMemory("read", TargetStatus(path, "file"))
    <2>1. TargetStatus(path, "file") # "space"
      BY DEF TargetStatus
    <2> QED
      BY <1>1, <2>1, StoreFails
  <1>2. CASE /\ TargetStatus(path, "file") = "ok"
             /\ Answer("read", "ok", ContentOf(path))
             /\ UNCHANGED <<disk, nodes>>
    <2>1. path \in FileNodes /\ path \in Store!Files
      BY <1>2, TargetFacts
    <2>2. HeldOK' /\ Stored' = Stored
      BY <1>2, SameStored
    <2>3. Store!Answer("read", "ok", ContentOf(path)) /\ out'.op = "read"
      BY <1>2, StoreAnswer
    <2>4. path \in DOMAIN nodes
      BY <2>1 DEF FileNodes
    <2>5. Stored[path].content = ContentOf(path)
      BY <2>4 DEF Stored
    <2>6. UNCHANGED <<block_count, block_size>>
      BY <1>2 DEF disk
    <2>7. Store!Read(path)
      BY <2>2, <2>3, <2>5, <2>6 DEF Store!Read, Stored
    <2> QED
      BY <2>1, <2>2, <2>7 DEF Store!Next
  <1> QED
    BY <1>1, <1>2 DEF Read

LEMMA LsImplements ==
    ASSUME HeldOK, NEW path, Ls(path)
    PROVE  HeldOK' /\ Store!Next
  <1>1. CASE Refuse("ls", TargetStatus(path, "dir"))
    <2>1. TargetStatus(path, "dir") # "space"
      BY DEF TargetStatus
    <2> QED
      BY <1>1, <2>1, StoreFails
  <1>2. CASE /\ TargetStatus(path, "dir") = "ok"
             /\ Answer("ls", "ok", Entries(Node(path)))
             /\ UNCHANGED <<disk, nodes>>
    <2>1. Node(path) \in Store!Dirs
      BY <1>2, TargetFacts
    <2>2. HeldOK' /\ Stored' = Stored
      BY <1>2, SameStored
    <2>3. Store!Answer("ls", "ok", Entries(Node(path))) /\ out'.op = "ls"
      BY <1>2, StoreAnswer
    <2>4. \A p \in DOMAIN nodes :
             /\ Stored[p].type = nodes[p].type
             /\ Len(Stored[p].content) = nodes[p].size
      BY Known DEF Stored, Holds
    <2>5. Store!Entries(Node(path)) = Entries(Node(path))
      <3> DEFINE S == Stored
      <3>1. DOMAIN S = DOMAIN nodes
        BY DEF Stored
      <3>2. Store!Entries(Node(path)) =
              {<<n, S[Append(Node(path), n)].type, Len(S[Append(Node(path), n)].content)>> :
                 n \in {m \in Names : Append(Node(path), m) \in DOMAIN S}}
        BY DEF Store!Entries, Stored
      <3> HIDE DEF S
      <3> QED
        BY <2>4, <3>1, <3>2 DEF Entries, S
    <2>6. UNCHANGED <<block_count, block_size>>
      BY <1>2 DEF disk
    <2>7. Store!List(Node(path))
      BY <2>2, <2>3, <2>5, <2>6 DEF Store!List, Stored
    <2> QED
      BY <2>1, <2>2, <2>7 DEF Store!Next
  <1> QED
    BY <1>1, <1>2 DEF Ls

LEMMA DeleteImplements ==
    ASSUME HeldOK, NEW path, Delete(path)
    PROVE  HeldOK' /\ Store!Next
  <1>1. CASE Refuse("delete", TargetStatus(path, "file"))
    <2>1. TargetStatus(path, "file") # "space"
      BY DEF TargetStatus
    <2> QED
      BY <1>1, <2>1, StoreFails
  <1>2. CASE /\ TargetStatus(path, "file") = "ok"
             /\ block_used' = Released(path)
             /\ block_data' = [b \in Blocks |-> IF b \in Range(nodes[path].blocks) THEN NoData
                                                ELSE block_data[b]]
             /\ nodes' = [p \in DOMAIN nodes \ {path} |-> nodes[p]]
             /\ Answer("delete", "ok", NoValue)
             /\ UNCHANGED <<block_size, block_count>>
    <2>1. path \in FileNodes /\ path # Root /\ path \in Store!Files
      BY <1>2, TargetFacts
    <2>2. FsOK'
      BY <1>2, DeleteStep DEF HeldOK
    <2>3. HeldOK' /\ Stored' = [p \in DOMAIN Stored \ {path} |-> Stored[p]]
      BY <1>2, <2>1, <2>2, DeleteStored
    <2>4. Store!Answer("delete", "ok", Store!NoValue)
      BY <1>2, StoreAnswer DEF NoValue, Store!NoValue
    <2>5. Store!Delete(path)
      BY <1>2, <2>3, <2>4 DEF Store!Delete, Store!NoValue, Stored
    <2> QED
      BY <2>1, <2>3, <2>5 DEF Store!Next
  <1> QED
    BY <1>1, <1>2 DEF Delete

LEMMA SpaceFacts ==
    ASSUME HeldOK, NEW path \in FileNodes, NEW c \in Contents, Fits(Len(c))
    PROVE  /\ Available(path) \in Int /\ RequiredBlocks(Len(c)) \in Nat
           /\ Store!BlocksFor(Len(c)) = RequiredBlocks(Len(c))
  <1>1. path \in DOMAIN nodes
    BY DEF FileNodes
  <1>2. /\ Len(c) \in Nat /\ Len(c) <= MaxInt
        /\ block_size \in Nat /\ block_size > 0 /\ block_size <= MaxInt
    BY <1>1, AssumedContent, SizeFacts
  <1>3. Cardinality(FreeBlocks) \in Nat /\ nodes[path].block_count \in Nat
    BY <1>1, UsedPieces, SizeFacts
  <1>4. RequiredBlocks(Len(c)) \in Nat
    BY <1>2, RequiredFacts
  <1>5. Store!BlocksFor(Len(c)) = RequiredBlocks(Len(c))
    BY <1>2, StoreBlocksFor
  <1> QED
    BY <1>3, <1>4, <1>5 DEF Available

(* A content fits beside the other files exactly when the disk has the blocks that it needs,  *)
(* those that the file gives back included.                                           *)
LEMMA WrittenFits ==
    ASSUME HeldOK, NEW path \in FileNodes, NEW c \in Contents, Fits(Len(c))
    PROVE  Store!BlocksOf([Stored EXCEPT ![path] = Store!File(c)]) <= block_count
             <=> RequiredBlocks(Len(c)) <= Available(path)
  <1> DEFINE R == RequiredBlocks(Len(c))
             s == [Stored EXCEPT ![path] = Store!File(c)]
             n == [Sizes EXCEPT ![path] = R]
  <1>1. path \in DOMAIN nodes /\ DOMAIN Stored = DOMAIN nodes /\ DOMAIN Sizes = DOMAIN nodes
    BY DEF FileNodes, Stored, Sizes
  <1>2. R \in Nat
    BY SpaceFacts
  <1>3. ASSUME NEW p \in DOMAIN nodes, p # path
        PROVE  Store!BlocksFor(Len(s[p].content)) = Sizes[p] /\ n[p] = Sizes[p]
    <2>1. s[p] = Stored[p] /\ n[p] = Sizes[p]
      BY <1>1, <1>3
    <2>2. Len(Stored[p].content) = nodes[p].size
      BY Known DEF Stored, Holds
    <2>3. Store!BlocksFor(nodes[p].size) = Sizes[p]
      BY SizeFacts, StoreBlocksFor
    <2> HIDE DEF s, n
    <2> QED
      BY <2>1, <2>2, <2>3
  <1>4. Store!BlocksFor(Len(s[path].content)) = R /\ n[path] = R
    <2>1. s[path].content = c
      BY <1>1 DEF Store!File
    <2>2. Store!BlocksFor(Len(c)) = R
      BY SpaceFacts
    <2> HIDE DEF R, s
    <2> QED
      BY <1>1, <2>1, <2>2
  <1>5. DOMAIN s = DOMAIN nodes
    BY <1>1
  <1> HIDE DEF R, s, n
  <1>6. \A p \in DOMAIN s : Store!BlocksFor(Len(s[p].content)) = n[p]
    BY <1>3, <1>4, <1>5
  <1>7. Store!BlocksOf(s) = Cardinality(PieceSet(DOMAIN nodes, n))
    BY <1>5, <1>6, StoreBlocks
  <1>8. Cardinality(PieceSet(DOMAIN nodes, n)) <= block_count <=> n[path] <= Available(path)
    BY <1>2, <1>3, <1>4, WriteFits
  <1> QED
    BY <1>4, <1>7, <1>8 DEF R, s

LEMMA WriteImplements ==
    ASSUME HeldOK, SumsFit, NEW path, NEW c \in Contents, Write(path, c)
    PROVE  HeldOK' /\ Store!Next
  <1> DEFINE written == [Stored EXCEPT ![path] = Store!File(c)]
  <1>0. Fits(Len(c))
    BY DEF SumsFit
  <1>1. CASE \/ WriteStatus(path, c) # "space" /\ Refuse("write", WriteStatus(path, c))
             \/ OutOfMemory("write", WriteStatus(path, c))
    <2>1. WriteStatus(path, c) # "space"
      BY <1>1 DEF OutOfMemory
    <2> QED
      BY <1>1, <2>1, StoreFails
  <1>2. CASE WriteStatus(path, c) = "space" /\ Refuse("write", WriteStatus(path, c))
    <2>1. path \in FileNodes /\ Available(path) < RequiredBlocks(Len(c))
      BY <1>2, FileFacts DEF WriteStatus, HeldOK
    <2>2. path \in Store!Files
      BY <2>1 DEF Store!Files, FileNodes
    <2>3. HeldOK' /\ Stored' = Stored /\ UNCHANGED <<block_count, block_size>>
      BY <1>2, SameStored DEF Refuse, disk
    <2>4. Store!Answer("write", "space", Store!NoValue)
      BY <1>2, StoreAnswer DEF Refuse, NoValue, Store!NoValue
    <2>5. ~(Store!BlocksOf(written) <= block_count)
      <3>1. Available(path) \in Int /\ RequiredBlocks(Len(c)) \in Int
        BY <1>0, <2>1, SpaceFacts
      <3> QED
        BY <1>0, <2>1, <3>1, WrittenFits
    <2>6. Store!Write(path, c)
      BY <2>3, <2>4, <2>5 DEF Store!Write, Store!NoValue, Stored
    <2> QED
      BY <2>2, <2>3, <2>6 DEF Store!Next
  <1>3. CASE WriteStatus(path, c) = "ok" /\ ~OutOfMemory("write", WriteStatus(path, c))
    <2>1. path \in FileNodes /\ Mounted /\ ~(Available(path) < RequiredBlocks(Len(c)))
      BY <1>3, FileFacts DEF WriteStatus, HeldOK
    <2>2. path \in Store!Files
      BY <2>1 DEF Store!Files, FileNodes
    <2>3. PICK bs \in [1..RequiredBlocks(Len(c)) -> Blocks] :
            /\ FirstFit(Released(path), bs)
            /\ block_used' = [b \in Blocks |-> Released(path)[b] \/ b \in Range(bs)]
            /\ block_data' =
                 [b \in Blocks |->
                    IF b \in Range(bs)
                    THEN Chunk(c, CHOOSE i \in DOMAIN bs : bs[i] = b)
                    ELSE IF b \in Range(nodes[path].blocks) THEN NoData ELSE block_data[b]]
            /\ nodes' = [nodes EXCEPT ![path].size = Len(c), ![path].blocks = bs,
                                      ![path].block_count = RequiredBlocks(Len(c))]
      BY <1>3 DEF Write, Refuse
    <2>4. Answer("write", "ok", NoValue) /\ UNCHANGED <<block_size, block_count>>
      BY <1>3 DEF Write, Refuse
    <2>5. FsOK'
      BY <1>3, <2>3, <2>4, WriteStep DEF HeldOK
    <2>6. HeldOK' /\ Stored' = [Stored EXCEPT ![path] = [type |-> "file", content |-> c]]
      BY <1>0, <2>1, <2>3, <2>4, <2>5, WriteStored
    <2>7. Stored' = written
      BY <2>6 DEF Store!File
    <2>8. Store!Answer("write", "ok", Store!NoValue)
      BY <2>4, StoreAnswer DEF NoValue, Store!NoValue
    <2>9. Store!BlocksOf(written) <= block_count
      <3>1. Available(path) \in Int /\ RequiredBlocks(Len(c)) \in Int
        BY <1>0, <2>1, SpaceFacts
      <3> QED
        BY <1>0, <2>1, <3>1, WrittenFits
    <2>10. Store!Write(path, c)
      BY <2>4, <2>7, <2>8, <2>9 DEF Store!Write, Store!NoValue, Stored
    <2> QED
      BY <2>2, <2>6, <2>10 DEF Store!Next
  <1> QED
    BY <1>1, <1>2, <1>3 DEF Write, Refuse

LEMMA StatImplements ==
    ASSUME HeldOK, Stat
    PROVE  HeldOK' /\ Store!Next
  <1>1. CASE Refuse("stat", "path")
    BY <1>1, StoreFails
  <1>2. CASE /\ Mounted
             /\ Answer("stat", "ok", <<block_count, block_count - Cardinality(FreeBlocks),
                                       Cardinality(FreeBlocks)>>)
             /\ UNCHANGED <<disk, nodes>>
    <2>1. HeldOK' /\ Stored' = Stored
      BY <1>2, SameStored
    <2>2. DOMAIN Stored = DOMAIN nodes
      BY DEF Stored
    <2>3. Stored # << >>
      <3>1. DOMAIN << >> = {}
        OBVIOUS
      <3> QED
        BY <1>2, <2>2, <3>1 DEF Mounted
    <2>4. Store!BlocksOf(Stored) = block_count - Cardinality(FreeBlocks)
      <3>1. ASSUME NEW p \in DOMAIN nodes
            PROVE  Store!BlocksFor(Len(Stored[p].content)) = Sizes[p]
        <4>1. Len(Stored[p].content) = nodes[p].size
          BY Known DEF Stored, Holds
        <4>2. Store!BlocksFor(nodes[p].size) = Sizes[p]
          BY SizeFacts, StoreBlocksFor
        <4> QED
          BY <4>1, <4>2
      <3>2. Store!BlocksOf(Stored) = Cardinality(PieceSet(DOMAIN nodes, Sizes))
        BY <2>2, <3>1, StoreBlocks
      <3> QED
        BY <3>2, UsedPieces
    <2>5. Cardinality(FreeBlocks) = block_count - Store!BlocksOf(Stored)
      BY <2>4, UsedPieces DEF HeldOK, FsOK, DiskOK
    <2>6. /\ Store!Answer("stat", "ok", <<block_count, block_count - Cardinality(FreeBlocks),
                                         Cardinality(FreeBlocks)>>)
          /\ out'.op = "stat"
      BY <1>2, StoreAnswer
    <2>7. UNCHANGED <<block_count, block_size>>
      BY <1>2 DEF disk
    <2>8. Store!Stat
      <3> DEFINE taken == block_count - Cardinality(FreeBlocks)
                 free == Cardinality(FreeBlocks)
      <3>1. Store!BlocksOf(Stored) = taken /\ free = block_count - taken
        BY <2>4, <2>5
      <3> HIDE DEF taken, free
      <3> QED
        BY <2>1, <2>3, <2>6, <2>7, <3>1 DEF Store!Stat, Stored, taken, free
    <2> QED
      BY <2>1, <2>8 DEF Store!Next
  <1> QED
    BY <1>1, <1>2 DEF Stat

LEMMA HeldInit == Init => HeldOK /\ Store!Init
  <1> SUFFICES ASSUME Init PROVE HeldOK /\ Store!Init
    OBVIOUS
  <1>1. FsOK
    BY InvInit DEF Inv
  <1>2. DOMAIN nodes = {}
    BY DEF Init
  <1>3. HeldOK
    BY <1>1, <1>2 DEF HeldOK, Rooted, ContentsHeld
  <1>4. Store!Init
    BY <1>2 DEF Init, Store!Init, NoValue, Store!NoValue
  <1> QED
    BY <1>3, <1>4

LEMMA HeldStep == HeldOK /\ SumsFit /\ [Next]_vars => HeldOK' /\ [Store!Next]_(Store!vars)
  <1> SUFFICES ASSUME HeldOK, SumsFit, [Next]_vars
               PROVE  HeldOK' /\ [Store!Next]_(Store!vars)
    OBVIOUS
  <1>1. ASSUME NEW d \in Disks, Mkfs(d[1], d[2]) \/ RefuseMkfs(d[1], d[2])
        PROVE  HeldOK' /\ Store!Next
    <2>1. d[1] \in Int /\ d[2] \in Int /\ d[2] <= MaxInt
      BY AssumedDisk
    <2> QED
      BY <1>1, <2>1, MkfsImplements, StoreFails DEF RefuseMkfs
  <1>2. ASSUME NEW path \in Paths, Mkdir(path) \/ Create(path) PROVE HeldOK' /\ Store!Next
    BY <1>2, CreateImplements DEF Mkdir, Create
  <1>3. ASSUME NEW path \in Paths,
               \/ Read(path) \/ Ls(path) \/ Delete(path)
               \/ \E c \in Contents : Write(path, c)
        PROVE  HeldOK' /\ Store!Next
    BY <1>3, ReadImplements, LsImplements, DeleteImplements, WriteImplements
  <1>4. CASE Stat
    BY <1>4, StatImplements
  <1>5. CASE BadLine
    BY <1>5, StoreFails DEF BadLine
  <1>6. CASE UNCHANGED vars
    <2>1. UNCHANGED <<disk, nodes, had_error, out, block_count, block_size>>
      BY <1>6 DEF vars, disk
    <2>2. HeldOK' /\ Stored' = Stored
      BY <2>1, SameStored
    <2> QED
      BY <2>1, <2>2 DEF Store!vars, Stored
  <1> QED
    BY <1>1, <1>2, <1>3, <1>4, <1>5, <1>6 DEF Next

(* Only mkfs changes the block size, and it leaves a tree without files.                 *)
LEMMA HeldAgain == (SumsFit => HeldOK) /\ [Next]_vars => (SumsFit => HeldOK)'
  <1> SUFFICES ASSUME SumsFit => HeldOK, [Next]_vars, SumsFit' PROVE HeldOK'
    OBVIOUS
  <1>1. ASSUME block_size' = block_size PROVE HeldOK'
    <2>1. SumsFit
      BY <1>1 DEF SumsFit, Fits
    <2> QED
      BY <2>1, HeldStep
  <1>2. ASSUME NEW d \in Disks, Mkfs(d[1], d[2]) PROVE HeldOK'
    BY <1>2, AssumedDisk, MkfsImplements
  <1>3. ASSUME NEW d \in Disks, RefuseMkfs(d[1], d[2]) PROVE HeldOK'
    BY <1>1, <1>3 DEF RefuseMkfs, Refuse, disk
  <1>4. ASSUME NEW path \in Paths, Mkdir(path) \/ Create(path) PROVE HeldOK'
    BY <1>1, <1>4 DEF Mkdir, Create, create_child, Refuse, OutOfMemory, disk
  <1>5. ASSUME NEW path \in Paths,
               \/ Read(path) \/ Ls(path) \/ Delete(path)
               \/ \E c \in Contents : Write(path, c)
        PROVE  HeldOK'
    BY <1>1, <1>5 DEF Read, Ls, Delete, Write, Refuse, OutOfMemory, disk
  <1>6. CASE Stat \/ BadLine \/ UNCHANGED vars
    BY <1>1, <1>6 DEF Stat, BadLine, Refuse, disk, vars
  <1> QED
    BY <1>2, <1>3, <1>4, <1>5, <1>6 DEF Next

(* Whatever the series of commands, on a disk where no sum wraps the tree and the disk    *)
(* behave as the store: a read answers what was last written, a write fails for lack of   *)
(* space exactly when the content does not fit beside the other files, a command that     *)
(* fails changes nothing.  Disks on which sums wrap may come before and after.            *)
THEOREM DiskImplementsStore == Spec => ImplementsStore
  <1>1. Init => (SumsFit => HeldOK) /\ Store!Init
    BY HeldInit
  <1>2. (SumsFit => HeldOK) /\ [Next]_vars => (SumsFit => HeldOK)'
    BY HeldAgain
  <1>3. (SumsFit => HeldOK) /\ [Next]_vars
          => [SumsFit => Store!Next \/ UNCHANGED Store!vars]_vars
    BY HeldStep
  <1> QED
    BY <1>1, <1>2, <1>3, PTL DEF Spec, ImplementsStore
================================================================================
