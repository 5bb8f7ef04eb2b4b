----------------------------- MODULE StorageProofs -----------------------------
(***************************************************************************)
(* storage.c by any number of processes that insert, delete, read, fail    *)
(* and are killed implements TableFile, and offsets find their rows; both  *)
(* say nothing of the inodes two DELETEs write at once.                    *)
(***************************************************************************)
EXTENDS Storage, Induction, SequenceTheorems

-------------------------------------------------------------------------------
\* What a DELETE copies

\* A set that holds the rows of a table holds those that are left of it.
LEMMA WithoutIsPart ==
  ASSUME NEW R, NEW rows \in Seq(R), NEW gone
  PROVE  Without(rows, gone) \in Seq(R)
<1> DEFINE n == Len(rows)
           Next1(f, i) == IF i = 0 THEN <<>>
                          ELSE IF rows[i].id \in gone THEN f[i - 1]
                          ELSE Append(f[i - 1], rows[i])
           Copies(f) == f = [i \in 0..n |-> Next1(f, i)]
           copied == CHOOSE f : Copies(f)
<1>1. n \in Nat /\ \A i \in 1..n : rows[i] \in R
  BY LenProperties
<1>2. \E f : f \in [0..n -> Seq(R)] /\ Copies(f)
  <2> DEFINE T == Seq(R)
             g == [i \in 1..n |-> [x \in T |->
                     IF rows[i].id \in gone THEN x ELSE Append(x, rows[i])]]
  <2>1. g \in [1..n -> [T -> T]] /\ <<>> \in T
    <3> HIDE DEF n
    <3> QED  BY <1>1
  <2>2. \A i \in 1..n, x \in T :
          g[i][x] = IF rows[i].id \in gone THEN x ELSE Append(x, rows[i])
    <3> HIDE DEF n
    <3> QED  OBVIOUS
  <2> HIDE DEF g, T
  <2>3. PICK f : Computes(f, n, T, <<>>, g)
    <3> HIDE DEF n
    <3> QED  BY <1>1, <2>1, PrefixFunction
  <2>4. ASSUME NEW i \in 0..n PROVE f[i] = Next1(f, i)
    <3>1. CASE i = 0
      BY <2>3, <3>1 DEF Computes
    <3>2. CASE i # 0
      <4>1. i \in 1..n /\ i - 1 \in 0..n
        BY <1>1, <3>2
      <4>2. f[i - 1] \in T /\ f[i] = g[i][f[i - 1]]
        <5> HIDE DEF n, Next1
        <5> QED  BY <2>3, <4>1 DEF Computes
      <4> HIDE DEF n
      <4> QED  BY <2>2, <3>2, <4>1, <4>2
    <3> QED  BY <3>1, <3>2
  <2>5. f = [i \in 0..n |-> f[i]]
    <3> HIDE DEF n
    <3> QED  BY <2>3 DEF Computes
  <2>6. Copies(f)
    <3> HIDE DEF n, Next1
    <3> QED  BY <2>4, <2>5
  <2> HIDE DEF Copies
  <2> QED  BY <2>3, <2>6 DEF T, Computes
<1>3. Copies(copied)
  <2> HIDE DEF Copies
  <2> QED  BY <1>2
<1>4. Without(rows, gone) = copied[n]
  BY Zenon DEF Without
<1>5. \A i \in 0..n : copied[i] = Next1(copied, i)
  <2> HIDE DEF copied, Next1
  <2> QED  BY <1>3
<1> HIDE DEF copied, Copies
<1>6. \A i \in Nat : i <= n => copied[i] \in Seq(R)
  <2> DEFINE S == { i \in Nat : i <= n => copied[i] \in Seq(R) }
  <2>1. 0 \in S
    <3>1. copied[0] = <<>>
      BY <1>1, <1>5
    <3>2. <<>> \in Seq(R)
      OBVIOUS
    <3> HIDE DEF Next1
    <3> QED  BY <3>1, <3>2
  <2>2. ASSUME NEW m \in Nat, m \in S PROVE m + 1 \in S
    <3>1. SUFFICES ASSUME m + 1 <= n PROVE copied[m + 1] \in Seq(R)
      OBVIOUS
    <3>2. copied[m] \in Seq(R) /\ rows[m + 1] \in R
      <4> HIDE DEF Next1
      <4> QED  BY <1>1, <2>2, <3>1
    <3>3. copied[m + 1] \in {copied[m], Append(copied[m], rows[m + 1])}
      <4>1. m + 1 \in 0..n /\ m + 1 # 0 /\ (m + 1) - 1 = m
        BY <1>1, <3>1
      <4>2. copied[m + 1] = Next1(copied, m + 1)
        <5> HIDE DEF Next1
        <5> QED  BY <1>5, <4>1
      <4> HIDE DEF n
      <4> QED  BY <4>1, <4>2
    <3>4. Append(copied[m], rows[m + 1]) \in Seq(R)
      <4> HIDE DEF n, Next1
      <4> QED  BY <3>2, AppendProperties
    <3> HIDE DEF n, Next1
    <3> QED  BY <3>2, <3>3, <3>4
  <2> HIDE DEF S
  <2>3. Nat \subseteq S
    BY <2>1, <2>2, InductionOverNat
  <2> QED  BY <2>3 DEF S
<1> QED  BY <1>1, <1>4, <1>6

Row == [id : LongLong]

(***************************************************************************)
(* storage_get_next_auto_id: the automatic id is a long long, and as long  *)
(* as no row has the id LLONG_MAX it is positive and larger than every id  *)
(* of the table.  With LLONG_MAX in the table the sum wraps around         *)
(* (storage.c:505-508) and nothing is said of the id but its range.        *)
(***************************************************************************)
THEOREM NextAutoIdIsNew ==
  ASSUME NEW rows \in Seq(Row)
  PROVE  /\ NextAutoId(rows) \in LongLong
         /\ MaxId \notin Ids(rows) =>
              /\ NextAutoId(rows) \in 1..MaxId
              /\ \A id \in Ids(rows) : id < NextAutoId(rows)
<1> DEFINE n == Len(rows)
           Next1(f, i) == IF i = 0 THEN 1
                          ELSE IF rows[i].id < f[i - 1] THEN f[i - 1]
                          ELSE IF rows[i].id = MaxId THEN -MaxId - 1
                          ELSE rows[i].id + 1
           Sums(f) == f = [i \in 0..n |-> Next1(f, i)]
           next == CHOOSE f : Sums(f)
<1>1. n \in Nat /\ \A i \in 1..n : rows[i].id \in LongLong
  <2>1. n \in Nat /\ rows \in [1..n -> Row]
    BY LenProperties
  <2>2. \A r \in Row : r.id \in LongLong
    BY DEF Row
  <2> HIDE DEF n
  <2> QED  BY <2>1, <2>2
<1>2. MaxId \in Nat \ {0}
  BY StorageAssumption
<1>3. \E f : f \in [0..n -> LongLong] /\ Sums(f)
  <2> DEFINE g == [i \in 1..n |-> [x \in LongLong |->
                     IF rows[i].id < x THEN x
                     ELSE IF rows[i].id = MaxId THEN -MaxId - 1
                     ELSE rows[i].id + 1]]
  <2>1. ASSUME NEW i \in 1..n, NEW x \in LongLong
        PROVE  (IF rows[i].id < x THEN x
                ELSE IF rows[i].id = MaxId THEN -MaxId - 1
                ELSE rows[i].id + 1) \in LongLong
    <3> HIDE DEF n
    <3> QED  BY <1>1, <1>2 DEF LongLong
  <2>2. g \in [1..n -> [LongLong -> LongLong]] /\ 1 \in LongLong
    <3>1. 1 \in LongLong
      BY <1>2 DEF LongLong
    <3> HIDE DEF n
    <3> QED  BY <2>1, <3>1
  <2>3. \A i \in 1..n, x \in LongLong :
          g[i][x] = IF rows[i].id < x THEN x
                    ELSE IF rows[i].id = MaxId THEN -MaxId - 1
                    ELSE rows[i].id + 1
    <3> HIDE DEF n
    <3> QED  OBVIOUS
  <2> HIDE DEF g
  <2>4. PICK f : Computes(f, n, LongLong, 1, g)
    <3> HIDE DEF n
    <3> QED  BY <1>1, <2>2, PrefixFunction
  <2>5. ASSUME NEW i \in 0..n PROVE f[i] = Next1(f, i)
    <3>1. CASE i = 0
      BY <2>4, <3>1 DEF Computes
    <3>2. CASE i # 0
      <4>1. i \in 1..n /\ i - 1 \in 0..n
        BY <1>1, <3>2
      <4>2. f[i - 1] \in LongLong /\ f[i] = g[i][f[i - 1]]
        <5> HIDE DEF n, Next1
        <5> QED  BY <2>4, <4>1 DEF Computes
      <4> HIDE DEF n
      <4> QED  BY <2>3, <3>2, <4>1, <4>2
    <3> QED  BY <3>1, <3>2
  <2>6. f = [i \in 0..n |-> f[i]]
    <3> HIDE DEF n
    <3> QED  BY <2>4 DEF Computes
  <2>7. Sums(f)
    <3> HIDE DEF n, Next1
    <3> QED  BY <2>5, <2>6
  <2> HIDE DEF Sums
  <2> QED  BY <2>4, <2>7 DEF Computes
<1>4. Sums(next)
  <2> HIDE DEF Sums
  <2> QED  BY <1>3
<1>5. NextAutoId(rows) = next[n]
  BY Zenon DEF NextAutoId
<1>6. \A i \in 0..n : next[i] = Next1(next, i)
  <2> HIDE DEF next, Next1
  <2> QED  BY <1>4
<1> HIDE DEF next, Sums
<1> DEFINE Free == \A i \in 1..n : rows[i].id # MaxId
           Larger(i) == /\ next[i] \in LongLong
                        /\ Free => /\ next[i] \in 1..MaxId
                                   /\ \A j \in 1..n : j <= i => rows[j].id < next[i]
<1>7. \A i \in Nat : i <= n => Larger(i)
  <2> DEFINE S == { i \in Nat : i <= n => Larger(i) }
  <2>1. 0 \in S
    <3>1. next[0] = 1
      BY <1>1, <1>6
    <3>2. \A j \in 1..n : ~(j <= 0)
      BY <1>1
    <3> HIDE DEF n, Next1
    <3> QED  BY <1>2, <3>1, <3>2 DEF LongLong
  <2>2. ASSUME NEW m \in Nat, m \in S PROVE m + 1 \in S
    <3>1. SUFFICES ASSUME m + 1 <= n PROVE Larger(m + 1)
      OBVIOUS
    <3> DEFINE id == rows[m + 1].id
    <3>2. Larger(m) /\ m + 1 \in 1..n /\ id \in LongLong
      <4>1. m + 1 \in 1..n /\ m <= n
        BY <1>1, <3>1
      <4>2. id \in LongLong
        BY <1>1, <4>1
      <4>3. Larger(m)
        BY <2>2, <4>1
      <4> QED  BY <4>1, <4>2, <4>3
    <3>3. next[m + 1] = IF id < next[m] THEN next[m]
                        ELSE IF id = MaxId THEN -MaxId - 1 ELSE id + 1
      <4>1. m + 1 \in 0..n /\ m + 1 # 0 /\ (m + 1) - 1 = m
        BY <1>1, <3>1
      <4>2. next[m + 1] = Next1(next, m + 1)
        <5> HIDE DEF Next1
        <5> QED  BY <1>6, <4>1
      <4> HIDE DEF n
      <4> QED  BY <4>1, <4>2
    <3> HIDE DEF Next1, n
    <3>4. next[m + 1] \in LongLong
      <4> HIDE DEF id
      <4> QED  BY <1>2, <3>2, <3>3 DEF LongLong
    <3>5. ASSUME Free
          PROVE  /\ next[m + 1] \in 1..MaxId /\ id < next[m + 1]
                 /\ next[m] <= next[m + 1] /\ next[m] \in Int
      <4>1. id # MaxId /\ next[m] \in 1..MaxId
        BY <3>2, <3>5
      <4> HIDE DEF id
      <4> QED  BY <1>2, <3>2, <3>3, <4>1 DEF LongLong
    <3>6. ASSUME Free, NEW j \in 1..n, j <= m + 1 PROVE rows[j].id < next[m + 1]
      <4>1. CASE j = m + 1
        BY <3>5, <3>6, <4>1
      <4>2. CASE j # m + 1
        <5>1. j <= m
          BY <1>1, <3>6, <4>2
        <5>2. rows[j].id < next[m] /\ rows[j].id \in Int
          BY <1>1, <1>2, <3>2, <3>6, <5>1 DEF LongLong
        <5>3. next[m + 1] \in Int
          BY <3>5, <3>6
        <5> QED  BY <3>5, <3>6, <5>2, <5>3
      <4> QED  BY <4>1, <4>2
    <3> QED  BY <3>4, <3>5, <3>6
  <2> HIDE DEF S
  <2>3. Nat \subseteq S
    BY <2>1, <2>2, InductionOverNat
  <2> QED  BY <2>3 DEF S
<1>8. Larger(n)
  BY <1>1, <1>7
<1>9. /\ MaxId \notin Ids(rows) => Free
      /\ \A id \in Ids(rows) : \E j \in 1..n : id = rows[j].id
  BY DEF Ids
<1> HIDE DEF Next1, Free
<1> QED  BY <1>1, <1>5, <1>8, <1>9

-------------------------------------------------------------------------------
\* The inductive invariant

Contents == [columns : Column \cup {"none", "blank", "torn"}, rows : Seq(Row)]

\* Rows come with a header.
Table == { f \in Contents : f.columns \in {"none", "torn"} => f.rows = <<>> }

Statement == InsertStatement \cup DeleteStatement \cup Read

\* The inodes data/<table>.csv names or has named.
Named == { path[k] : k \in 1..Len(path) }

\* The path has named no inode twice, nor the one of data/<table>.tmp; two
\* DELETEs meet only when there are two versions of the table.
TypeInv ==
  /\ file \in Seq(Table)
  /\ path \in Seq(1..Len(file))
  /\ \A j, k \in 1..Len(path) : path[j] = path[k] => j = k
  /\ temp \in 0..Len(file) /\ temp \notin Named
  /\ shared # {} => Len(path) >= 2
  /\ full \in Nat
  /\ call \in [Proc -> Statement \cup {NULL}]
  /\ at \in [Proc -> {"idle", "open", "lock", "locked", "flush", "giveup", "rename",
                      "remove", "close"}]
  /\ fd \in [Proc -> Nat]
  /\ draft \in [Proc -> Nat]
  /\ lock \in [Proc -> {"none", "shared", "exclusive"}]
  /\ buffer \in [Proc -> Contents]
  /\ result \in [Proc -> Row \cup {NULL, SUCCESS, FAILURE}]
  /\ loaded \in [Proc -> [inode : Nat, rows : Seq(Row)]]

\* Where a call is, what it is, and what it has open and locked.
CallInv(p) ==
  /\ at[p] # "idle" => call[p] \in Statement
  /\ at[p] = "flush" => Kind(p) \in {"insert", "delete"}
  /\ at[p] \in {"giveup", "rename", "remove"} => Kind(p) = "delete"
  /\ fd[p] # 0 => fd[p] \in Named
  /\ at[p] \in {"idle", "open"} => fd[p] = 0
  /\ at[p] \in {"lock", "locked", "flush", "giveup", "rename", "remove"} => fd[p] # 0
  /\ at[p] \in {"idle", "open", "lock"} => lock[p] = "none"
  /\ at[p] \in {"locked", "flush", "giveup", "rename", "remove"} => lock[p] = LockMode(p)
  /\ lock[p] # "none" => fd[p] # 0

\* An exclusive lock is the only one on its inode, and a DELETE that meets
\* another one writes an inode of `shared`.
ExclusionInv(p, q) ==
  /\ fd[p] = fd[q] /\ lock[p] = "exclusive" => lock[q] = "none"
  /\ Deleting(p) /\ Deleting(q) => draft[p] \in shared

\* What an INSERT is about to write fits the file it was made from.
InsertInv(p) ==
  LET f == file[fd[p]]
  IN at[p] = "flush" /\ Kind(p) = "insert" =>
       /\ buffer[p].columns \in Column \cup {"none"}
       /\ Len(buffer[p].rows) = 1
       /\ fd[p] \notin shared =>
            /\ ColumnsMatch(call[p], f)
            /\ buffer[p].columns = IF f.columns = "none" THEN call[p].column ELSE "none"
            /\ buffer[p].rows[1].id \notin Ids(f.rows) \/ MaxId \in Ids(f.rows)

\* What a DELETE copies of a table.
Copy(f, where) ==
  [columns |-> IF f.columns = "none" THEN "blank" ELSE f.columns,
   rows |-> Without(f.rows, Matching(f.rows, where))]

\* A DELETE that meets no other has data/<table>.tmp for itself, and there
\* what it is about to put in the place of the table.
DeleteInv(p) ==
  Deleting(p) =>
    /\ draft[p] \in 1..Len(file)
    /\ buffer[p].columns \in Column \cup {"blank"}
    /\ draft[p] \in shared => temp = 0 \/ temp \in shared
    /\ draft[p] \notin shared =>
         /\ temp = draft[p]
         /\ at[p] \in {"flush", "giveup"} => file[draft[p]] = Empty
         /\ at[p] = "rename" =>
              file[draft[p]] = buffer[p] \/ (file[draft[p]] = Empty /\ full > 0)
    /\ at[p] \in {"flush", "rename"} /\ fd[p] \notin shared =>
         buffer[p] = Copy(file[fd[p]], call[p].where)

\* The rows a process has loaded are still the first ones of their inode.
LoadedInv(p) ==
  LET i == loaded[p].inode
      seen == loaded[p].rows
      now == file[i].rows
  IN /\ i # 0 => i \in Named
     /\ i # 0 /\ i \notin shared =>
          Len(seen) <= Len(now) /\ \A j \in 1..Len(seen) : seen[j] = now[j]
     /\ at[p] # "idle" /\ Kind(p) = "read" => call[p].position \in 1..Len(seen)

\* OffsetsFindTheirRows, of one process.
FoundInv(p) ==
  /\ at[p] = "close" /\ Kind(p) = "read" /\ lock[p] # "none"
  /\ fd[p] = loaded[p].inode /\ fd[p] \notin shared
  => result[p] = loaded[p].rows[call[p].position]

ProcessInv(p) ==
  CallInv(p) /\ InsertInv(p) /\ DeleteInv(p) /\ LoadedInv(p) /\ FoundInv(p)

StorageInv ==
  /\ TypeInv
  /\ \A p \in Proc : ProcessInv(p)
  /\ \A p, q \in Proc : p # q => ExclusionInv(p, q)

LEMMA StorageInvBegins == Init => StorageInv
<1> SUFFICES ASSUME Init PROVE StorageInv
  OBVIOUS
<1>1. Empty \in Contents
  BY DEF Empty, Contents
<1>2. TypeInv
  <2>1. Len(path) = 0 /\ Len(file) = 0 /\ path \in Seq(1..Len(file)) /\ file \in Seq(Table)
    BY DEF Init
  <2>2. Named = {}
    BY <2>1 DEF Named
  <2> QED  BY <1>1, <2>1, <2>2 DEF Init, TypeInv
<1>3. \A p \in Proc : CallInv(p) /\ InsertInv(p) /\ DeleteInv(p)
  BY DEF Init, CallInv, InsertInv, DeleteInv, Deleting
<1>4. \A p \in Proc : LoadedInv(p)
  BY DEF Init, LoadedInv
<1>5. \A p, q \in Proc : p # q => ExclusionInv(p, q)
  BY DEF Init, ExclusionInv, Deleting
<1>6. \A p \in Proc : FoundInv(p)
  BY DEF Init, FoundInv
<1> QED  BY <1>2, <1>3, <1>4, <1>5, <1>6 DEF StorageInv, ProcessInv

LEMMA EmptyIsTable == Empty \in Table /\ Empty \in Contents /\ <<>> \in Seq(Row)
BY DEF Empty, Table, Contents

\* An inode.
LEMMA InodeIsTable ==
  ASSUME TypeInv, NEW i \in 1..Len(file)
  PROVE  /\ file[i] \in Table /\ file[i].rows \in Seq(Row) /\ Len(file[i].rows) \in Nat
         /\ file[i].columns \in Column \cup {"none", "blank", "torn"}
         /\ file[i].columns \in {"none", "torn"} => file[i].rows = <<>>
<1>1. file[i] \in Table
  BY ElementOfSeq DEF TypeInv
<1> QED  BY <1>1 DEF Table, Contents

LEMMA LengthIsNat ==
  ASSUME NEW S, NEW s \in Seq(S)
  PROVE  Len(s) \in Nat
OBVIOUS

LEMMA NamedInodes ==
  ASSUME TypeInv
  PROVE  Named \subseteq 1..Len(file) /\ (Named # {} => path # <<>>) /\ Len(file) \in Nat
<1>1. \A k \in 1..Len(path) : path[k] \in 1..Len(file)
  <2> DEFINE I == 1..Len(file)
  <2>1. path \in Seq(I)
    BY DEF TypeInv
  <2> HIDE DEF I
  <2> QED  BY <2>1, ElementOfSeq DEF I
<1>2. Len(file) \in Nat
  BY DEF TypeInv
<1> QED  BY <1>1, <1>2 DEF Named

\* The contents of an open file.
LEMMA OpenFile ==
  ASSUME StorageInv, NEW p \in Proc, fd[p] # 0
  PROVE  /\ fd[p] \in Named /\ fd[p] \in 1..Len(file) /\ file[fd[p]] \in Table
         /\ file[fd[p]].rows \in Seq(Row) /\ Len(file[fd[p]].rows) \in Nat
         /\ file[fd[p]].columns \in Column \cup {"none", "blank", "torn"}
         /\ file[fd[p]].columns \in {"none", "torn"} => file[fd[p]].rows = <<>>
<1>1. TypeInv /\ fd[p] \in Named
  BY DEF StorageInv, ProcessInv, CallInv
<1>2. fd[p] \in 1..Len(file)
  BY <1>1, NamedInodes
<1> QED  BY <1>1, <1>2, InodeIsTable

\* A DELETE with data/<table>.tmp open holds an exclusive lock on a table, and
\* an inode of its own is none of the tables.
LEMMA DeletingHolds ==
  ASSUME StorageInv, NEW p \in Proc, Deleting(p)
  PROVE  /\ fd[p] # 0 /\ fd[p] \in Named /\ lock[p] = "exclusive"
         /\ draft[p] \in 1..Len(file)
         /\ draft[p] \notin shared => draft[p] = temp /\ draft[p] \notin Named
BY DEF StorageInv, ProcessInv, CallInv, Deleting, DeleteInv, LockMode, TypeInv

\* What the statements say.
LEMMA StatementFields ==
  ASSUME NEW s \in Statement
  PROVE  /\ s.kind \in {"insert", "delete", "load", "read"}
         /\ s.kind = "insert" => /\ s.column \in Column
                                 /\ s.id \in ExplicitId \cup {AutoId, EmptyId}
         /\ s.kind = "delete" => s.where \in ExplicitId \cup {AllRows, UnknownColumn}
         /\ s.kind = "read" => s.position \in 1..MaxCalls
BY DEF Statement, InsertStatement, DeleteStatement, Read

-------------------------------------------------------------------------------
\* What a step of one process leaves to the others

\* Tables are added, and rows behind the rows of those that no two DELETEs
\* write; which ones these are is settled when the path names them.
Stays ==
  /\ Len(file) <= Len(file')
  /\ Named \subseteq Named'
  /\ \A i \in Named : i \in shared' <=> i \in shared
  /\ \A i \in Named \ shared :
       /\ Len(file[i].rows) <= Len(file'[i].rows)
       /\ \A j \in 1..Len(file[i].rows) : file'[i].rows[j] = file[i].rows[j]
  /\ full' >= full

\* A process that takes no step keeps what it has.
Rests(q) ==
  /\ call'[q] = call[q] /\ at'[q] = at[q] /\ fd'[q] = fd[q] /\ lock'[q] = lock[q]
  /\ draft'[q] = draft[q] /\ buffer'[q] = buffer[q] /\ result'[q] = result[q]
  /\ loaded'[q] = loaded[q]

\* What is ready to be written goes to a file nobody else has written since,
\* or two DELETEs know of it.
LeftAlone(q) ==
  /\ at[q] \in {"flush", "rename"} /\ fd[q] \notin shared => file'[fd[q]] = file[fd[q]]
  /\ Deleting(q) =>
       /\ draft[q] \in shared => draft[q] \in shared'
       /\ draft[q] \in shared' => temp' = 0 \/ temp' \in shared'
       /\ draft[q] \notin shared' => temp' = temp /\ file'[draft[q]] = file[draft[q]]

LEMMA LoadedRowsStay ==
  ASSUME TypeInv, TypeInv', Stays, NEW q \in Proc, LoadedInv(q),
         loaded'[q] = loaded[q],
         at'[q] # "idle" /\ call'[q].kind = "read" =>
           call'[q].position \in 1..Len(loaded[q].rows)
  PROVE  LoadedInv(q)'
<1> DEFINE i == loaded[q].inode
           seen == loaded[q].rows
<1>1. i # 0 => i \in Named /\ i \in Named'
  BY DEF LoadedInv, Stays
<1>2. ASSUME i # 0, i \notin shared'
      PROVE  /\ Len(seen) <= Len(file'[i].rows)
             /\ \A j \in 1..Len(seen) : seen[j] = file'[i].rows[j]
  <2>1. i \in Named /\ i \notin shared
    BY <1>1, <1>2 DEF Stays
  <2>2. i \in 1..Len(file) /\ i \in 1..Len(file')
    <3>1. i \in 1..Len(file) /\ Len(file) <= Len(file')
      BY <1>1, <1>2, NamedInodes DEF Stays
    <3>2. Len(file) \in Nat /\ Len(file') \in Nat
      <4>1. file \in Seq(Table) /\ file' \in Seq(Table)
        BY DEF TypeInv
      <4> QED  BY <4>1, LengthIsNat
    <3> HIDE DEF i
    <3> QED  BY <3>1, <3>2
  <2>3. Len(file[i].rows) \in Nat /\ Len(seen) \in Nat
    <3>1. Len(file[i].rows) \in Nat
      BY <2>2, InodeIsTable
    <3> QED  BY <3>1 DEF TypeInv
  <2>4. Len(file'[i].rows) \in Nat
    <3>1. file'[i].rows \in Seq(Row)
      <4>1. file' \in Seq(Table)
        BY DEF TypeInv
      <4>2. file'[i] \in Table
        BY <2>2, <4>1, ElementOfSeq
      <4> QED  BY <4>2 DEF Table, Contents
    <3> QED  BY <3>1
  <2>5. Len(seen) <= Len(file[i].rows) /\ \A j \in 1..Len(seen) : seen[j] = file[i].rows[j]
    BY <1>2, <2>1 DEF LoadedInv
  <2>6. /\ Len(file[i].rows) <= Len(file'[i].rows)
        /\ \A j \in 1..Len(file[i].rows) : file'[i].rows[j] = file[i].rows[j]
    BY <2>1 DEF Stays
  <2> HIDE DEF i, seen
  <2> QED  BY <2>3, <2>4, <2>5, <2>6
<1> QED  BY <1>1, <1>2 DEF LoadedInv, Kind

\* So a process at rest keeps its part of the invariant.
LEMMA OthersKeep ==
  ASSUME StorageInv, TypeInv', Stays, NEW q \in Proc, Rests(q), LeftAlone(q)
  PROVE  ProcessInv(q)'
<1> USE DEF StorageInv, ProcessInv
<1>0. /\ call'[q] = call[q] /\ at'[q] = at[q] /\ fd'[q] = fd[q] /\ lock'[q] = lock[q]
      /\ draft'[q] = draft[q] /\ buffer'[q] = buffer[q] /\ result'[q] = result[q]
      /\ loaded'[q] = loaded[q]
  BY DEF Rests
<1>1. CallInv(q)'
  BY <1>0 DEF CallInv, Kind, LockMode, Stays
<1>2. InsertInv(q)'
  <2>1. at[q] = "flush" => fd[q] \in Named
    BY DEF CallInv
  <2>2. at[q] = "flush" => (fd[q] \in shared' <=> fd[q] \in shared)
    BY <2>1 DEF Stays
  <2> QED  BY <1>0, <2>2 DEF InsertInv, LeftAlone, Kind
<1>3. DeleteInv(q)'
  <2>1. full \in Nat /\ full' \in Nat /\ full' >= full /\ Len(file) \in Nat
        /\ Len(file') \in Nat /\ Len(file) <= Len(file')
    <3>1. Len(file) \in Nat /\ full \in Nat
      BY DEF TypeInv
    <3>2. Len(file') \in Nat /\ full' \in Nat
      BY DEF TypeInv
    <3> QED  BY <3>1, <3>2 DEF Stays
  <2>2. Deleting(q)' <=> Deleting(q)
    BY <1>0 DEF Deleting, Kind
  <2> SUFFICES ASSUME Deleting(q) PROVE DeleteInv(q)'
    BY <2>2 DEF DeleteInv
  <2>3. draft[q] \in 1..Len(file') /\ buffer[q].columns \in Column \cup {"blank"}
    BY <2>1 DEF DeleteInv
  <2>4. draft[q] \in shared' => temp' = 0 \/ temp' \in shared'
    BY DEF LeftAlone
  <2>5. ASSUME draft[q] \notin shared'
        PROVE  /\ temp' = draft[q]
               /\ at[q] \in {"flush", "giveup"} => file'[draft[q]] = Empty
               /\ at[q] = "rename" =>
                    file'[draft[q]] = buffer[q] \/ (file'[draft[q]] = Empty /\ full' > 0)
    <3>1. draft[q] \notin shared /\ temp' = temp /\ file'[draft[q]] = file[draft[q]]
      BY <2>5 DEF LeftAlone
    <3> QED  BY <2>1, <3>1 DEF DeleteInv
  <2>6. ASSUME at[q] \in {"flush", "rename"}, fd[q] \notin shared'
        PROVE  buffer[q] = Copy(file'[fd[q]], call[q].where)
    <3>1. fd[q] \notin shared
      BY <2>6, DeletingHolds DEF Stays
    <3> QED  BY <2>6, <3>1 DEF DeleteInv, LeftAlone
  <2>7. Copy(file[fd[q]], call[q].where)' = Copy(file'[fd[q]], call[q].where)
    BY <1>0 DEF Copy
  <2> QED  BY <1>0, <2>3, <2>4, <2>5, <2>6, <2>7 DEF DeleteInv
<1>4. LoadedInv(q)'
  <2>1. at'[q] # "idle" /\ call'[q].kind = "read" =>
          call'[q].position \in 1..Len(loaded[q].rows)
    BY <1>0 DEF LoadedInv, Kind
  <2> QED  BY <1>0, <2>1, LoadedRowsStay
<1>5. FoundInv(q)'
  <2>1. lock[q] # "none" => fd[q] \in Named
    BY DEF CallInv
  <2>2. lock[q] # "none" => (fd[q] \in shared' <=> fd[q] \in shared)
    BY <2>1 DEF Stays
  <2> QED  BY <1>0, <2>2 DEF FoundInv, Kind
<1> QED  BY <1>1, <1>2, <1>3, <1>4, <1>5

\* So a step of one process keeps the invariant if it keeps that process's part.
LEMMA OneSteps ==
  ASSUME StorageInv, NEW p \in Proc, TypeInv', Stays,
         \A q \in Proc \ {p} : Rests(q) /\ LeftAlone(q),
         ProcessInv(p)',
         \A q \in Proc \ {p} : ExclusionInv(p, q)' /\ ExclusionInv(q, p)'
  PROVE  StorageInv'
<1>1. \A q \in Proc : ProcessInv(q)'
  BY OthersKeep
<1>2. ASSUME NEW q \in Proc, NEW r \in Proc, q # r PROVE ExclusionInv(q, r)'
  <2>1. CASE q = p \/ r = p
    BY <1>2, <2>1
  <2>2. CASE q # p /\ r # p
    BY <1>2, <2>2 DEF StorageInv, ExclusionInv, Deleting, Kind, Rests, LeftAlone
  <2> QED  BY <2>1, <2>2
<1> QED  BY <1>1, <1>2 DEF StorageInv

\* The files that did not change have not changed.
LEMMA SameFiles ==
  ASSUME StorageInv, NEW p \in Proc, UNCHANGED <<file, path, shared, full>>,
         temp' = temp \/ (temp' = 0 /\ Deleting(p))
  PROVE  Stays /\ \A q \in Proc \ {p} : LeftAlone(q)
<1>1. TypeInv
  BY DEF StorageInv
<1>2. \A i \in Named : Len(file[i].rows) \in Nat
  BY <1>1, NamedInodes, InodeIsTable
<1>3. Stays
  BY <1>1, <1>2 DEF Stays, TypeInv, Named
<1>4. \A q \in Proc \ {p} : LeftAlone(q)
  <2>1. \A q \in Proc \ {p} : Deleting(p) /\ Deleting(q) => draft[q] \in shared
    BY DEF StorageInv, ExclusionInv
  <2> QED  BY <2>1 DEF LeftAlone, StorageInv, ProcessInv, DeleteInv
<1> QED  BY <1>3, <1>4

\* The path gets another name.
LEMMA NextName ==
  ASSUME TypeInv, NEW i \in Nat \ Named, i \in 1..Len(file'), Len(file) <= Len(file'),
         Len(file') \in Nat, path' = Append(path, i)
  PROVE  /\ path' \in Seq(1..Len(file'))
         /\ \A j, k \in 1..Len(path') : path'[j] = path'[k] => j = k
         /\ Named' = Named \cup {i}
         /\ Len(path') = Len(path) + 1 /\ path'[Len(path) + 1] = i
         /\ \A k \in 1..Len(path) : path'[k] = path[k]
<1> DEFINE I == 1..Len(file')
           n == Len(path)
<1>1. Len(file) \in Nat /\ n \in Nat /\ \A k \in 1..n : path[k] \in I /\ path[k] # i
  <2>1. Len(file) \in Nat /\ n \in Nat
    BY DEF TypeInv
  <2>2. \A k \in 1..n : path[k] \in Named
    BY DEF Named
  <2>3. Named \subseteq 1..Len(file) /\ i \notin Named
    BY NamedInodes
  <2>4. 1..Len(file) \subseteq I
    BY <2>1
  <2> HIDE DEF I, n
  <2> QED  BY <2>1, <2>2, <2>3, <2>4
<1>2. path \in Seq(I)
  <2>1. path \in [1..n -> 1..Len(file)]
    <3> DEFINE J == 1..Len(file)
    <3>1. path \in Seq(J)
      BY DEF TypeInv
    <3> HIDE DEF J
    <3>2. path \in [1..Len(path) -> J]
      BY <3>1, LenProperties
    <3> QED  BY <3>2 DEF J
  <2>2. path \in [1..n -> I]
    <3> HIDE DEF n, I
    <3> QED  BY <1>1, <2>1
  <2> HIDE DEF I
  <2> QED  BY <1>1, <2>2, SeqDef
<1>3. /\ path' \in Seq(I) /\ Len(path') = n + 1 /\ path'[n + 1] = i
      /\ \A k \in 1..n : path'[k] = path[k]
  <2> i \in I
    OBVIOUS
  <2> HIDE DEF I
  <2> QED  BY <1>2, AppendProperties
<1>4. \A j, k \in 1..(n + 1) : path'[j] = path'[k] => j = k
  <2>1. \A j, k \in 1..n : path[j] = path[k] => j = k
    BY DEF TypeInv
  <2>2. \A j \in 1..(n + 1) : j = n + 1 \/ j \in 1..n
    BY <1>1
  <2> HIDE DEF n
  <2> QED  BY <1>1, <1>3, <2>1, <2>2
<1>5. Named' = Named \cup {i}
  <2>1. 1..(n + 1) = (1..n) \cup {n + 1}
    BY <1>1
  <2>2. Named' = { path'[k] : k \in 1..(n + 1) }
    BY <1>3 DEF Named
  <2>3. { path'[k] : k \in (1..n) \cup {n + 1} } = { path'[k] : k \in 1..n } \cup {i}
    BY <1>3
  <2>4. { path'[k] : k \in 1..n } = Named
    BY <1>3 DEF Named
  <2> HIDE DEF n
  <2> QED  BY <2>1, <2>2, <2>3, <2>4
<1> QED  BY <1>3, <1>4, <1>5

\* A new inode leaves the others as they are.
LEMMA NewFile ==
  ASSUME TypeInv, NEW f \in Table, file' = Append(file, f)
  PROVE  /\ file' \in Seq(Table)
         /\ Len(file') = Len(file) + 1 /\ file'[Len(file) + 1] = f
         /\ \A i \in 1..Len(file) : file'[i] = file[i]
BY AppendProperties DEF TypeInv

\* So does a write.
LEMMA WrittenFile ==
  ASSUME TypeInv, NEW i \in 1..Len(file), NEW f \in Table, file' = [file EXCEPT ![i] = f]
  PROVE  /\ file' \in Seq(Table) /\ Len(file') = Len(file) /\ file'[i] = f
         /\ \A j \in 1..Len(file) : j # i => file'[j] = file[j]
<1>1. file \in Seq(Table)
  BY DEF TypeInv
<1> QED  BY <1>1, ExceptSeq

-------------------------------------------------------------------------------
\* Every step keeps the invariant

LEMMA BeginKeeps ==
  ASSUME StorageInv, NEW p \in Proc, NEW s \in Statement, Begin(p, s)
  PROVE  StorageInv'
<1> USE DEF StorageInv, ProcessInv
<1>1. UNCHANGED <<files, full>>
  BY DEF Begin, Step, counters, files
<1>2. TypeInv'
  BY <1>1 DEF TypeInv, Named, Begin, Step, counters, files
<1>3. Stays /\ \A q \in Proc \ {p} : LeftAlone(q)
  BY <1>1, SameFiles DEF files
<1>4. \A q \in Proc \ {p} : Rests(q)
  BY DEF TypeInv, Rests, Begin, Step, counters, files
<1>5. CallInv(p)'
  BY <1>1 DEF TypeInv, CallInv, Named, Kind, LockMode, Begin, Step, counters, files
<1>6. InsertInv(p)'
  BY DEF TypeInv, InsertInv, Kind, Begin, Step, counters, files
<1>7. DeleteInv(p)'
  BY <1>1 DEF TypeInv, DeleteInv, CallInv, Deleting, Kind, Begin, Step, counters, files
<1>8. LoadedInv(p)'
  <2>1. loaded'[p] = loaded[p]
    BY DEF TypeInv, Begin, Step, counters, files
  <2>2. at'[p] # "idle" /\ call'[p].kind = "read" =>
          call'[p].position \in 1..Len(loaded[p].rows)
    <3>1. call'[p] = s /\ (s.kind = "read" => s.position <= Len(loaded[p].rows))
      BY DEF TypeInv, Begin, Step, counters, files
    <3>2. s.kind = "read" => s.position \in 1..MaxCalls
      BY StatementFields
    <3>3. Len(loaded[p].rows) \in Nat
      BY DEF TypeInv
    <3> QED  BY <3>1, <3>2, <3>3
  <2> QED  BY <1>2, <1>3, <2>1, <2>2, LoadedRowsStay
<1>9. FoundInv(p)'
  BY <1>1 DEF TypeInv, FoundInv, CallInv, Kind, Begin, Step, counters, files
<1>10. \A q \in Proc \ {p} : ExclusionInv(p, q)' /\ ExclusionInv(q, p)'
  BY <1>1 DEF TypeInv, ExclusionInv, CallInv, Deleting, Kind, LockMode, Begin, Step, counters, files
<1> QED  BY <1>2, <1>3, <1>4, <1>5, <1>6, <1>7, <1>8, <1>9, <1>10, OneSteps

LEMMA OpenForReadKeeps ==
  ASSUME StorageInv, NEW p \in Proc, OpenForRead(p)
  PROVE  StorageInv'
<1> USE DEF StorageInv, ProcessInv
<1>1. UNCHANGED <<files, full>>
  BY DEF OpenForRead, Step, counters, files
<1>2. TypeInv'
  <2>1. Last(path) \in Nat
    BY NamedInodes DEF OpenForRead, TypeInv, Named, Last
  <2> QED  BY <1>1, <2>1 DEF TypeInv, Named, OpenForRead, Step, counters, files
<1>3. Stays /\ \A q \in Proc \ {p} : LeftAlone(q)
  BY <1>1, SameFiles DEF files
<1>4. \A q \in Proc \ {p} : Rests(q)
  BY DEF TypeInv, Rests, OpenForRead, Step, counters, files
<1>5. CallInv(p)'
  <2>1. path # <<>> /\ path' = path /\ fd'[p] = Last(path)
    BY DEF TypeInv, OpenForRead, Step, counters, files
  <2>2. Last(path) \in Named
    BY <2>1 DEF TypeInv, Named, Last
  <2>3. Named' = Named /\ 0 \notin Named
    BY <2>1, NamedInodes DEF Named
  <2> QED  BY <2>1, <2>2, <2>3 DEF TypeInv, CallInv, Kind, LockMode, OpenForRead, Step, counters, files
<1>6. InsertInv(p)'
  BY DEF TypeInv, InsertInv, Kind, OpenForRead, Step, counters, files
<1>7. DeleteInv(p)'
  BY <1>1 DEF TypeInv, DeleteInv, CallInv, Deleting, Kind, OpenForRead, Step, counters, files
<1>8. LoadedInv(p)'
  <2>1. loaded'[p] = loaded[p]
    BY DEF TypeInv, OpenForRead, Step, counters, files
  <2>2. at'[p] # "idle" /\ call'[p].kind = "read" =>
          call'[p].position \in 1..Len(loaded[p].rows)
    BY DEF TypeInv, LoadedInv, Kind, OpenForRead, Step, counters, files
  <2> QED  BY <1>2, <1>3, <2>1, <2>2, LoadedRowsStay
<1>9. FoundInv(p)'
  BY <1>1 DEF TypeInv, FoundInv, CallInv, Kind, OpenForRead, Step, counters, files
<1>10. \A q \in Proc \ {p} : ExclusionInv(p, q)' /\ ExclusionInv(q, p)'
  BY <1>1 DEF TypeInv, ExclusionInv, CallInv, Deleting, Kind, LockMode, OpenForRead, Step, counters, files
<1> QED  BY <1>2, <1>3, <1>4, <1>5, <1>6, <1>7, <1>8, <1>9, <1>10, OneSteps

LEMMA OpenFailsKeeps ==
  ASSUME StorageInv, NEW p \in Proc, OpenFails(p)
  PROVE  StorageInv'
<1> USE DEF StorageInv, ProcessInv
<1>1. UNCHANGED <<files, full>>
  BY DEF OpenFails, Finish, Fault, counters, files
<1>2. TypeInv'
  BY <1>1 DEF TypeInv, Named, OpenFails, Finish, Fault, counters, files
<1>3. Stays /\ \A q \in Proc \ {p} : LeftAlone(q)
  BY <1>1, SameFiles DEF files
<1>4. \A q \in Proc \ {p} : Rests(q)
  BY DEF TypeInv, Rests, OpenFails, Finish, Fault, counters, files
<1>5. CallInv(p)'
  BY <1>1 DEF TypeInv, CallInv, Named, Kind, LockMode, OpenFails, Finish, Fault, counters, files
<1>6. InsertInv(p)'
  BY DEF TypeInv, InsertInv, Kind, OpenFails, Finish, Fault, counters, files
<1>7. DeleteInv(p)'
  BY <1>1 DEF TypeInv, DeleteInv, CallInv, Deleting, Kind, OpenFails, Finish, Fault, counters, files
<1>8. LoadedInv(p)'
  <2>1. loaded'[p] = loaded[p]
    BY DEF TypeInv, OpenFails, Finish, Fault, counters, files
  <2>2. at'[p] # "idle" /\ call'[p].kind = "read" =>
          call'[p].position \in 1..Len(loaded[p].rows)
    BY DEF TypeInv, LoadedInv, Kind, OpenFails, Finish, Fault, counters, files
  <2> QED  BY <1>2, <1>3, <2>1, <2>2, LoadedRowsStay
<1>9. FoundInv(p)'
  BY <1>1 DEF TypeInv, FoundInv, CallInv, Kind, OpenFails, Finish, Fault, counters, files
<1>10. \A q \in Proc \ {p} : ExclusionInv(p, q)' /\ ExclusionInv(q, p)'
  BY <1>1 DEF TypeInv, ExclusionInv, CallInv, Deleting, Kind, LockMode, OpenFails, Finish, Fault, counters, files
<1> QED  BY <1>2, <1>3, <1>4, <1>5, <1>6, <1>7, <1>8, <1>9, <1>10, OneSteps

LEMMA LockTableKeeps ==
  ASSUME StorageInv, NEW p \in Proc, LockTable(p)
  PROVE  StorageInv'
<1> USE DEF StorageInv, ProcessInv
<1>1. UNCHANGED <<files, full>>
  BY DEF LockTable, Step, counters, files
<1>2. TypeInv'
  BY <1>1 DEF TypeInv, Named, LockMode, LockTable, Step, counters, files
<1>3. Stays /\ \A q \in Proc \ {p} : LeftAlone(q)
  BY <1>1, SameFiles DEF files
<1>4. \A q \in Proc \ {p} : Rests(q)
  BY DEF TypeInv, Rests, LockTable, Step, counters, files
<1>5. CallInv(p)'
  BY <1>1 DEF TypeInv, CallInv, Named, Kind, LockMode, LockTable, Step, counters, files
<1>6. InsertInv(p)'
  BY DEF TypeInv, InsertInv, Kind, LockTable, Step, counters, files
<1>7. DeleteInv(p)'
  BY <1>1 DEF TypeInv, DeleteInv, CallInv, Deleting, Kind, LockTable, Step, counters, files
<1>8. LoadedInv(p)'
  <2>1. loaded'[p] = loaded[p]
    BY DEF TypeInv, LockTable, Step, counters, files
  <2>2. at'[p] # "idle" /\ call'[p].kind = "read" =>
          call'[p].position \in 1..Len(loaded[p].rows)
    BY DEF TypeInv, LoadedInv, Kind, LockTable, Step, counters, files
  <2> QED  BY <1>2, <1>3, <2>1, <2>2, LoadedRowsStay
<1>9. FoundInv(p)'
  BY <1>1 DEF TypeInv, FoundInv, CallInv, Kind, LockTable, Step, counters, files
<1>10. \A q \in Proc \ {p} : ExclusionInv(p, q)' /\ ExclusionInv(q, p)'
  BY <1>1 DEF TypeInv, ExclusionInv, CallInv, Deleting, Kind, LockMode, LockTable, Step, counters, files
<1> QED  BY <1>2, <1>3, <1>4, <1>5, <1>6, <1>7, <1>8, <1>9, <1>10, OneSteps

LEMMA LockFailsKeeps ==
  ASSUME StorageInv, NEW p \in Proc, LockFails(p)
  PROVE  StorageInv'
<1> USE DEF StorageInv, ProcessInv
<1>1. UNCHANGED <<files, full>>
  BY DEF LockFails, Finish, Fault, counters, files
<1>2. TypeInv'
  BY <1>1 DEF TypeInv, Named, LockFails, Finish, Fault, counters, files
<1>3. Stays /\ \A q \in Proc \ {p} : LeftAlone(q)
  BY <1>1, SameFiles DEF files
<1>4. \A q \in Proc \ {p} : Rests(q)
  BY DEF TypeInv, Rests, LockFails, Finish, Fault, counters, files
<1>5. CallInv(p)'
  BY <1>1 DEF TypeInv, CallInv, Named, Kind, LockMode, LockFails, Finish, Fault, counters, files
<1>6. InsertInv(p)'
  BY DEF TypeInv, InsertInv, Kind, LockFails, Finish, Fault, counters, files
<1>7. DeleteInv(p)'
  BY <1>1 DEF TypeInv, DeleteInv, CallInv, Deleting, Kind, LockFails, Finish, Fault, counters, files
<1>8. LoadedInv(p)'
  <2>1. loaded'[p] = loaded[p]
    BY DEF TypeInv, LockFails, Finish, Fault, counters, files
  <2>2. at'[p] # "idle" /\ call'[p].kind = "read" =>
          call'[p].position \in 1..Len(loaded[p].rows)
    BY DEF TypeInv, LoadedInv, Kind, LockFails, Finish, Fault, counters, files
  <2> QED  BY <1>2, <1>3, <2>1, <2>2, LoadedRowsStay
<1>9. FoundInv(p)'
  BY <1>1 DEF TypeInv, FoundInv, CallInv, Kind, LockFails, Finish, Fault, counters, files
<1>10. \A q \in Proc \ {p} : ExclusionInv(p, q)' /\ ExclusionInv(q, p)'
  BY <1>1 DEF TypeInv, ExclusionInv, CallInv, Deleting, Kind, LockMode, LockFails, Finish, Fault, counters, files
<1> QED  BY <1>2, <1>3, <1>4, <1>5, <1>6, <1>7, <1>8, <1>9, <1>10, OneSteps

\* The row an INSERT writes: its id is new, or LLONG_MAX is taken.
LEMMA NewRowIsNew ==
  ASSUME NEW s, s.id \in ExplicitId \cup {AutoId, EmptyId},
         NEW f, f.rows \in Seq(Row), Accepted(s, f)
  PROVE  /\ NewRow(s, f) \in Row
         /\ NewRow(s, f).id \notin Ids(f.rows) \/ MaxId \in Ids(f.rows)
<1>1. s.id \notin Ids(f.rows) /\ s.id \in ExplicitId \cup {AutoId}
  BY DEF Accepted, ValidPrimaryKey
<1>2. /\ NextAutoId(f.rows) \in LongLong
      /\ NextAutoId(f.rows) \notin Ids(f.rows) \/ MaxId \in Ids(f.rows)
  <2>1. /\ NextAutoId(f.rows) \in LongLong
        /\ MaxId \notin Ids(f.rows) =>
             /\ NextAutoId(f.rows) \in 1..MaxId
             /\ \A id \in Ids(f.rows) : id < NextAutoId(f.rows)
    BY NextAutoIdIsNew
  <2>2. \A id \in 1..MaxId : ~(id < id)
    BY StorageAssumption
  <2> QED  BY <2>1, <2>2
<1>3. ExplicitId \subseteq LongLong
  BY StorageAssumption
<1> QED  BY <1>1, <1>2, <1>3 DEF NewRow, Row

LEMMA PrepareInsertKeeps ==
  ASSUME StorageInv, NEW p \in Proc, PrepareInsert(p)
  PROVE  StorageInv'
<1> USE DEF StorageInv, ProcessInv
<1>1. UNCHANGED <<files, full>>
  BY DEF PrepareInsert, Finish, Step, counters, files
<1>2. TypeInv'
  <2>1. buffer' \in [Proc -> Contents]
    <3> DEFINE f == file[fd[p]]
               t == call[p]
               c == IF f.columns = "none" THEN t.column ELSE "none"
    <3>1. f.rows \in Seq(Row) /\ t \in Statement /\ t.kind = "insert"
      BY OpenFile DEF CallInv, PrepareInsert, Kind
    <3>2. c \in Column \cup {"none", "blank", "torn"}
      BY <3>1, StatementFields
    <3>3. Accepted(t, f) => NewRow(t, f) \in Row
      <4>1. t.id \in ExplicitId \cup {AutoId, EmptyId}
        BY <3>1, StatementFields
      <4> HIDE DEF t, f
      <4> QED  BY <3>1, <4>1, NewRowIsNew
    <3>4. Accepted(t, f) => [columns |-> c, rows |-> <<NewRow(t, f)>>] \in Contents
      <4> HIDE DEF c, t, f
      <4> QED  BY <3>2, <3>3 DEF Contents
    <3>5. \/ Accepted(t, f)
             /\ buffer' = [buffer EXCEPT ![p] = [columns |-> c, rows |-> <<NewRow(t, f)>>]]
          \/ buffer' = buffer
      BY DEF PrepareInsert
    <3> HIDE DEF c, t, f
    <3> QED  BY <3>4, <3>5 DEF TypeInv
  <2> QED  BY <2>1 DEF TypeInv, Named, PrepareInsert, Finish, Step, counters, files
<1>3. Stays /\ \A q \in Proc \ {p} : LeftAlone(q)
  BY <1>1, SameFiles DEF files
<1>4. \A q \in Proc \ {p} : Rests(q)
  BY DEF TypeInv, Rests, PrepareInsert, Finish, Step, counters, files
<1>5. CallInv(p)'
  BY <1>1 DEF TypeInv, CallInv, Named, Kind, LockMode, PrepareInsert, Finish, Step, counters, files
<1>6. InsertInv(p)'
  <2> DEFINE f == file[fd[p]]
             t == call[p]
             c == IF f.columns = "none" THEN t.column ELSE "none"
  <2>1. /\ file' = file /\ fd' = fd /\ call' = call /\ shared' = shared
        /\ at'[p] = "flush" =>
             /\ Accepted(t, f)
             /\ buffer'[p] = [columns |-> c, rows |-> <<NewRow(t, f)>>]
    <3>1. file' = file /\ shared' = shared
      BY <1>1 DEF files
    <3>2. CASE Accepted(t, f)
      BY <3>1, <3>2 DEF TypeInv, PrepareInsert, Step
    <3>3. CASE ~Accepted(t, f)
      BY <3>1, <3>3 DEF TypeInv, PrepareInsert, Finish
    <3> QED  BY <3>2, <3>3
  <2>2. f.rows \in Seq(Row) /\ t \in Statement /\ t.kind = "insert"
    BY OpenFile DEF CallInv, PrepareInsert, Kind
  <2>3. t.id \in ExplicitId \cup {AutoId, EmptyId} /\ t.column \in Column
    BY <2>2, StatementFields
  <2> HIDE DEF f, t
  <2>4. Accepted(t, f) =>
          /\ ColumnsMatch(t, f)
          /\ NewRow(t, f).id \notin Ids(f.rows) \/ MaxId \in Ids(f.rows)
    BY <2>2, <2>3, NewRowIsNew DEF Accepted
  <2>5. at'[p] = "flush" =>
          /\ ColumnsMatch(t, f) /\ buffer'[p].columns = c /\ c \in Column \cup {"none"}
          /\ Len(buffer'[p].rows) = 1
          /\ buffer'[p].rows[1].id \notin Ids(f.rows) \/ MaxId \in Ids(f.rows)
    BY <2>1, <2>3, <2>4
  <2>6. /\ file'[fd'[p]] = f /\ call'[p] = t
        /\ ColumnsMatch(call[p], file[fd[p]])' = ColumnsMatch(t, f)
    BY <2>1 DEF f, t, ColumnsMatch
  <2> HIDE DEF c
  <2> QED  BY <2>5, <2>6 DEF InsertInv, c
<1>7. DeleteInv(p)'
  BY <1>1 DEF TypeInv, DeleteInv, CallInv, Deleting, Kind, PrepareInsert, Finish, Step, counters, files
<1>8. LoadedInv(p)'
  <2>1. loaded'[p] = loaded[p]
    BY DEF TypeInv, Named, PrepareInsert, Finish, Step, counters, files
  <2>2. at'[p] # "idle" /\ call'[p].kind = "read" =>
          call'[p].position \in 1..Len(loaded[p].rows)
    BY DEF TypeInv, LoadedInv, Kind, PrepareInsert, Finish, Step, counters, files
  <2> QED  BY <1>2, <1>3, <2>1, <2>2, LoadedRowsStay
<1>9. FoundInv(p)'
  BY <1>1 DEF TypeInv, FoundInv, CallInv, Kind, PrepareInsert, Finish, Step, counters, files
<1>10. \A q \in Proc \ {p} : ExclusionInv(p, q)' /\ ExclusionInv(q, p)'
  BY <1>1 DEF TypeInv, ExclusionInv, CallInv, Deleting, Kind, LockMode, PrepareInsert, Finish, Step, counters, files
<1> QED  BY <1>2, <1>3, <1>4, <1>5, <1>6, <1>7, <1>8, <1>9, <1>10, OneSteps

LEMMA DeleteFailsKeeps ==
  ASSUME StorageInv, NEW p \in Proc, DeleteFails(p)
  PROVE  StorageInv'
<1> USE DEF StorageInv, ProcessInv
<1>1. UNCHANGED <<files, full>>
  BY DEF DeleteFails, Finish, Fault, counters, files
<1>2. TypeInv'
  BY <1>1 DEF TypeInv, Named, DeleteFails, Finish, Fault, counters, files
<1>3. Stays /\ \A q \in Proc \ {p} : LeftAlone(q)
  BY <1>1, SameFiles DEF files
<1>4. \A q \in Proc \ {p} : Rests(q)
  BY DEF TypeInv, Rests, DeleteFails, Finish, Fault, counters, files
<1>5. CallInv(p)'
  BY <1>1 DEF TypeInv, CallInv, Named, Kind, LockMode, DeleteFails, Finish, Fault, counters, files
<1>6. InsertInv(p)'
  BY DEF TypeInv, InsertInv, Kind, DeleteFails, Finish, Fault, counters, files
<1>7. DeleteInv(p)'
  BY <1>1 DEF TypeInv, DeleteInv, CallInv, Deleting, Kind, DeleteFails, Finish, Fault, counters, files
<1>8. LoadedInv(p)'
  <2>1. loaded'[p] = loaded[p]
    BY DEF TypeInv, DeleteFails, Finish, Fault, counters, files
  <2>2. at'[p] # "idle" /\ call'[p].kind = "read" =>
          call'[p].position \in 1..Len(loaded[p].rows)
    BY DEF TypeInv, LoadedInv, Kind, DeleteFails, Finish, Fault, counters, files
  <2> QED  BY <1>2, <1>3, <2>1, <2>2, LoadedRowsStay
<1>9. FoundInv(p)'
  BY <1>1 DEF TypeInv, FoundInv, CallInv, Kind, DeleteFails, Finish, Fault, counters, files
<1>10. \A q \in Proc \ {p} : ExclusionInv(p, q)' /\ ExclusionInv(q, p)'
  BY <1>1 DEF TypeInv, ExclusionInv, CallInv, Deleting, Kind, LockMode, DeleteFails, Finish, Fault, counters, files
<1> QED  BY <1>2, <1>3, <1>4, <1>5, <1>6, <1>7, <1>8, <1>9, <1>10, OneSteps

LEMMA RenameFailsKeeps ==
  ASSUME StorageInv, NEW p \in Proc, RenameFails(p)
  PROVE  StorageInv'
<1> USE DEF StorageInv, ProcessInv
<1>1. UNCHANGED <<files, full>>
  BY DEF RenameFails, Step, Fault, counters, files
<1>2. TypeInv'
  BY <1>1 DEF TypeInv, Named, RenameFails, Step, Fault, counters, files
<1>3. Stays /\ \A q \in Proc \ {p} : LeftAlone(q)
  BY <1>1, SameFiles DEF files
<1>4. \A q \in Proc \ {p} : Rests(q)
  BY DEF TypeInv, Rests, RenameFails, Step, Fault, counters, files
<1>5. CallInv(p)'
  BY <1>1 DEF TypeInv, CallInv, Named, Kind, LockMode, RenameFails, Step, Fault, counters, files
<1>6. InsertInv(p)'
  BY DEF TypeInv, InsertInv, Kind, RenameFails, Step, Fault, counters, files
<1>7. DeleteInv(p)'
  BY <1>1 DEF TypeInv, DeleteInv, CallInv, Deleting, Kind, RenameFails, Step, Fault, counters, files
<1>8. LoadedInv(p)'
  <2>1. loaded'[p] = loaded[p]
    BY DEF TypeInv, RenameFails, Step, Fault, counters, files
  <2>2. at'[p] # "idle" /\ call'[p].kind = "read" =>
          call'[p].position \in 1..Len(loaded[p].rows)
    BY DEF TypeInv, LoadedInv, Kind, RenameFails, Step, Fault, counters, files
  <2> QED  BY <1>2, <1>3, <2>1, <2>2, LoadedRowsStay
<1>9. FoundInv(p)'
  BY <1>1 DEF TypeInv, FoundInv, CallInv, Kind, RenameFails, Step, Fault, counters, files
<1>10. \A q \in Proc \ {p} : ExclusionInv(p, q)' /\ ExclusionInv(q, p)'
  BY <1>1 DEF TypeInv, ExclusionInv, CallInv, Deleting, Kind, LockMode, RenameFails, Step, Fault, counters, files
<1> QED  BY <1>2, <1>3, <1>4, <1>5, <1>6, <1>7, <1>8, <1>9, <1>10, OneSteps

LEMMA RemoveTempKeeps ==
  ASSUME StorageInv, NEW p \in Proc, RemoveTemp(p)
  PROVE  StorageInv'
<1> USE DEF StorageInv, ProcessInv
<1>1. UNCHANGED <<file, path, shared, full>>
  BY DEF RemoveTemp, Finish, counters, files
<1>2. TypeInv'
  <2>1. temp' = 0 /\ 0 \notin Named /\ Len(file) \in Nat
    BY NamedInodes DEF RemoveTemp
  <2>2. at' \in [Proc -> {"idle", "open", "lock", "locked", "flush", "giveup", "rename",
                         "remove", "close"}]
    BY DEF TypeInv, RemoveTemp, Finish
  <2>3. result' \in [Proc -> Row \cup {NULL, SUCCESS, FAILURE}]
    BY DEF TypeInv, RemoveTemp, Finish
  <2>4. UNCHANGED <<call, fd, draft, lock, buffer, loaded>>
    BY DEF RemoveTemp
  <2> QED  BY <1>1, <2>1, <2>2, <2>3, <2>4 DEF TypeInv, Named
<1>3. Stays /\ \A q \in Proc \ {p} : LeftAlone(q)
  BY <1>1, SameFiles DEF RemoveTemp, Deleting, CallInv
<1>4. \A q \in Proc \ {p} : Rests(q)
  BY DEF TypeInv, Rests, RemoveTemp, Finish, counters, files
<1>5. CallInv(p)'
  BY <1>1 DEF TypeInv, CallInv, Named, Kind, LockMode, RemoveTemp, Finish, counters, files
<1>6. InsertInv(p)'
  BY DEF TypeInv, InsertInv, Kind, RemoveTemp, Finish, counters, files
<1>7. DeleteInv(p)'
  BY <1>1 DEF TypeInv, DeleteInv, CallInv, Deleting, Kind, RemoveTemp, Finish, counters, files
<1>8. LoadedInv(p)'
  <2>1. loaded'[p] = loaded[p]
    BY DEF TypeInv, RemoveTemp, Finish, counters, files
  <2>2. at'[p] # "idle" /\ call'[p].kind = "read" =>
          call'[p].position \in 1..Len(loaded[p].rows)
    BY DEF TypeInv, LoadedInv, Kind, RemoveTemp, Finish, counters, files
  <2> QED  BY <1>2, <1>3, <2>1, <2>2, LoadedRowsStay
<1>9. FoundInv(p)'
  BY <1>1 DEF TypeInv, FoundInv, CallInv, Kind, RemoveTemp, Finish, counters, files
<1>10. \A q \in Proc \ {p} : ExclusionInv(p, q)' /\ ExclusionInv(q, p)'
  BY <1>1 DEF TypeInv, ExclusionInv, CallInv, Deleting, Kind, LockMode, RemoveTemp, Finish, counters, files
<1> QED  BY <1>2, <1>3, <1>4, <1>5, <1>6, <1>7, <1>8, <1>9, <1>10, OneSteps

LEMMA LoadTableKeeps ==
  ASSUME StorageInv, NEW p \in Proc, LoadTable(p)
  PROVE  StorageInv'
<1> USE DEF StorageInv, ProcessInv
<1>1. UNCHANGED <<files, full>>
  BY DEF LoadTable, Finish, counters, files
<1>2. TypeInv'
  <2>1. fd[p] \in Nat /\ file[fd[p]].rows \in Seq(Row)
    BY OpenFile DEF CallInv, LoadTable, TypeInv
  <2>2. loaded' \in [Proc -> [inode : Nat, rows : Seq(Row)]]
    <3> DEFINE l == [inode |-> fd[p], rows |-> file[fd[p]].rows]
    <3>1. l \in [inode : Nat, rows : Seq(Row)]
      BY <2>1
    <3>2. loaded' = loaded \/ loaded' = [loaded EXCEPT ![p] = l]
      BY DEF LoadTable
    <3> HIDE DEF l
    <3> QED  BY <3>1, <3>2 DEF TypeInv
  <2>3. /\ at' = [at EXCEPT ![p] = "close"]
        /\ result' = [result EXCEPT ![p] = SUCCESS] \/ result' = [result EXCEPT ![p] = FAILURE]
    BY DEF LoadTable, Finish
  <2>4. /\ result' \in [Proc -> Row \cup {NULL, SUCCESS, FAILURE}]
        /\ at' \in [Proc -> {"idle", "open", "lock", "locked", "flush", "giveup", "rename",
                             "remove", "close"}]
    BY <2>3 DEF TypeInv
  <2>5. UNCHANGED <<call, fd, draft, lock, buffer>>
    BY DEF LoadTable
  <2> QED  BY <1>1, <2>2, <2>4, <2>5 DEF TypeInv, Named, files
<1>3. Stays /\ \A q \in Proc \ {p} : LeftAlone(q)
  BY <1>1, SameFiles DEF files
<1>4. \A q \in Proc \ {p} : Rests(q)
  BY DEF TypeInv, Rests, LoadTable, Finish, counters, files
<1>5. CallInv(p)'
  BY <1>1 DEF TypeInv, CallInv, Named, Kind, LockMode, LoadTable, Finish, counters, files
<1>6. InsertInv(p)'
  BY DEF TypeInv, InsertInv, Kind, LoadTable, Finish, counters, files
<1>7. DeleteInv(p)'
  BY <1>1 DEF TypeInv, DeleteInv, CallInv, Deleting, Kind, LoadTable, Finish, counters, files
<1>8. LoadedInv(p)'
  <2>1. loaded'[p] = loaded[p] \/ loaded'[p] = [inode |-> fd[p], rows |-> file[fd[p]].rows]
    BY DEF TypeInv, LoadTable
  <2>2. call'[p].kind = "load"
    BY DEF LoadTable, Kind
  <2>3. CASE loaded'[p] = loaded[p]
    BY <1>2, <1>3, <2>2, <2>3, LoadedRowsStay
  <2>4. CASE loaded'[p] = [inode |-> fd[p], rows |-> file[fd[p]].rows]
    <3>1. fd[p] \in Named /\ Len(file[fd[p]].rows) \in Nat
      BY OpenFile DEF CallInv, LoadTable
    <3> QED  BY <1>1, <2>2, <2>4, <3>1 DEF LoadedInv, Kind, Named, files
  <2> QED  BY <2>1, <2>3, <2>4
<1>9. FoundInv(p)'
  BY <1>1 DEF TypeInv, FoundInv, CallInv, Kind, LoadTable, Finish, counters, files
<1>10. \A q \in Proc \ {p} : ExclusionInv(p, q)' /\ ExclusionInv(q, p)'
  BY <1>1 DEF TypeInv, ExclusionInv, CallInv, Deleting, Kind, LockMode, LoadTable, Finish, counters, files
<1> QED  BY <1>2, <1>3, <1>4, <1>5, <1>6, <1>7, <1>8, <1>9, <1>10, OneSteps

LEMMA ReadRowAtOffsetKeeps ==
  ASSUME StorageInv, NEW p \in Proc, ReadRowAtOffset(p)
  PROVE  StorageInv'
<1> USE DEF StorageInv, ProcessInv
<1>1. UNCHANGED <<files, full>>
  BY DEF ReadRowAtOffset, Finish, counters, files
<1>2. TypeInv'
  <2> DEFINE rows == file[fd[p]].rows
             i == call[p].position
  <2>1. fd[p] # 0 /\ i \in 1..Len(loaded[p].rows)
    BY DEF CallInv, LoadedInv, ReadRowAtOffset
  <2> HIDE DEF i
  <2>2. rows \in Seq(Row) /\ i \in Nat /\ i # 0
    BY <2>1, OpenFile
  <2> USE DEF i
  <2>3. i <= Len(rows) => rows[i] \in Row
    <3> HIDE DEF rows, i
    <3> QED  BY <2>2
  <2>4. result' = [result EXCEPT ![p] = IF i <= Len(rows) THEN rows[i] ELSE FAILURE]
    BY DEF ReadRowAtOffset, Finish
  <2>5. result' \in [Proc -> Row \cup {NULL, SUCCESS, FAILURE}]
    <3> HIDE DEF rows, i
    <3> QED  BY <2>3, <2>4 DEF TypeInv
  <2> QED  BY <2>5 DEF TypeInv, Named, ReadRowAtOffset, Finish, counters, files
<1>3. Stays /\ \A q \in Proc \ {p} : LeftAlone(q)
  BY <1>1, SameFiles DEF files
<1>4. \A q \in Proc \ {p} : Rests(q)
  BY DEF TypeInv, Rests, ReadRowAtOffset, Finish, counters, files
<1>5. CallInv(p)'
  BY <1>1 DEF TypeInv, CallInv, Named, Kind, LockMode, ReadRowAtOffset, Finish, counters, files
<1>6. InsertInv(p)'
  BY DEF TypeInv, InsertInv, Kind, ReadRowAtOffset, Finish, counters, files
<1>7. DeleteInv(p)'
  BY <1>1 DEF TypeInv, DeleteInv, CallInv, Deleting, Kind, ReadRowAtOffset, Finish, counters, files
<1>8. LoadedInv(p)'
  <2>1. loaded'[p] = loaded[p]
    BY DEF TypeInv, Named, ReadRowAtOffset, Finish, counters, files
  <2>2. at'[p] # "idle" /\ call'[p].kind = "read" =>
          call'[p].position \in 1..Len(loaded[p].rows)
    BY DEF TypeInv, LoadedInv, Kind, ReadRowAtOffset, Finish, counters, files
  <2> QED  BY <1>2, <1>3, <2>1, <2>2, LoadedRowsStay
<1>9. FoundInv(p)'
  <2> DEFINE now == file[fd[p]].rows
             seen == loaded[p].rows
             i == call[p].position
  <2>1. /\ fd'[p] = fd[p] /\ loaded'[p] = loaded[p] /\ call'[p] = call[p]
        /\ result'[p] = IF i <= Len(now) THEN now[i] ELSE FAILURE
    BY DEF TypeInv, ReadRowAtOffset, Finish
  <2>2. ASSUME fd[p] = loaded[p].inode, fd[p] \notin shared PROVE result'[p] = seen[i]
    <3>1. fd[p] # 0 /\ i \in 1..Len(seen) /\ Len(seen) \in Nat /\ Len(now) \in Nat
      <4>1. fd[p] # 0 /\ i \in 1..Len(seen)
        BY DEF CallInv, LoadedInv, ReadRowAtOffset
      <4>2. seen \in Seq(Row)
        BY DEF TypeInv
      <4>3. Len(now) \in Nat
        BY <4>1, OpenFile
      <4> HIDE DEF seen, now, i
      <4> QED  BY <4>1, <4>2, <4>3
    <3>2. /\ Len(seen) <= Len(now)
          /\ \A j \in 1..Len(seen) : seen[j] = now[j]
      BY <2>2, <3>1 DEF LoadedInv
    <3>3. seen[i] = now[i]
      <4> HIDE DEF now, seen, i
      <4> QED  BY <3>1, <3>2
    <3> HIDE DEF now, seen, i
    <3> QED  BY <2>1, <3>1, <3>2, <3>3
  <2> QED  BY <1>1, <2>1, <2>2 DEF FoundInv, files
<1>10. \A q \in Proc \ {p} : ExclusionInv(p, q)' /\ ExclusionInv(q, p)'
  BY <1>1 DEF TypeInv, ExclusionInv, CallInv, Deleting, Kind, LockMode, ReadRowAtOffset, Finish, counters, files
<1> QED  BY <1>2, <1>3, <1>4, <1>5, <1>6, <1>7, <1>8, <1>9, <1>10, OneSteps

LEMMA CloseKeeps ==
  ASSUME StorageInv, NEW p \in Proc, Close(p)
  PROVE  StorageInv'
<1> USE DEF StorageInv, ProcessInv
<1>1. UNCHANGED <<files, full>>
  BY DEF Close, Leave, counters, files
<1>2. TypeInv'
  BY <1>1, EmptyIsTable DEF TypeInv, Named, Close, Leave, counters, files
<1>3. Stays /\ \A q \in Proc \ {p} : LeftAlone(q)
  BY <1>1, SameFiles DEF files
<1>4. \A q \in Proc \ {p} : Rests(q)
  BY DEF TypeInv, Rests, Close, Leave, counters, files
<1>5. CallInv(p)'
  BY <1>1 DEF TypeInv, CallInv, Named, Kind, LockMode, Close, Leave, counters, files
<1>6. InsertInv(p)'
  BY DEF TypeInv, InsertInv, Kind, Close, Leave, counters, files
<1>7. DeleteInv(p)'
  BY <1>1 DEF TypeInv, DeleteInv, CallInv, Deleting, Kind, Close, Leave, counters, files
<1>8. LoadedInv(p)'
  <2>1. loaded'[p] = loaded[p]
    BY DEF TypeInv, Close, Leave, counters, files
  <2>2. at'[p] # "idle" /\ call'[p].kind = "read" =>
          call'[p].position \in 1..Len(loaded[p].rows)
    BY DEF TypeInv, LoadedInv, Kind, Close, Leave, counters, files
  <2> QED  BY <1>2, <1>3, <2>1, <2>2, LoadedRowsStay
<1>9. FoundInv(p)'
  BY <1>1 DEF TypeInv, FoundInv, CallInv, Kind, Close, Leave, counters, files
<1>10. \A q \in Proc \ {p} : ExclusionInv(p, q)' /\ ExclusionInv(q, p)'
  BY <1>1 DEF TypeInv, ExclusionInv, CallInv, Deleting, Kind, LockMode, Close, Leave, counters, files
<1> QED  BY <1>2, <1>3, <1>4, <1>5, <1>6, <1>7, <1>8, <1>9, <1>10, OneSteps

LEMMA CrashKeeps ==
  ASSUME StorageInv, NEW p \in Proc, Crash(p)
  PROVE  StorageInv'
<1> USE DEF StorageInv, ProcessInv
<1>1. UNCHANGED <<files, full>>
  BY DEF Crash, Leave, counters, files
<1>2. TypeInv'
  BY <1>1, EmptyIsTable DEF TypeInv, Named, Crash, Leave, counters, files
<1>3. Stays /\ \A q \in Proc \ {p} : LeftAlone(q)
  BY <1>1, SameFiles DEF files
<1>4. \A q \in Proc \ {p} : Rests(q)
  BY DEF TypeInv, Rests, Crash, Leave, counters, files
<1>5. CallInv(p)'
  BY <1>1 DEF TypeInv, CallInv, Named, Kind, LockMode, Crash, Leave, counters, files
<1>6. InsertInv(p)'
  BY DEF TypeInv, InsertInv, Kind, Crash, Leave, counters, files
<1>7. DeleteInv(p)'
  BY <1>1 DEF TypeInv, DeleteInv, CallInv, Deleting, Kind, Crash, Leave, counters, files
<1>8. LoadedInv(p)'
  <2>1. loaded'[p].inode = 0 /\ loaded'[p].rows = <<>> /\ at'[p] = "idle"
    BY DEF TypeInv, Crash, Leave
  <2> QED  BY <2>1 DEF LoadedInv
<1>9. FoundInv(p)'
  BY <1>1 DEF TypeInv, FoundInv, CallInv, Kind, Crash, Leave, counters, files
<1>10. \A q \in Proc \ {p} : ExclusionInv(p, q)' /\ ExclusionInv(q, p)'
  BY <1>1 DEF TypeInv, ExclusionInv, CallInv, Deleting, Kind, LockMode, Crash, Leave, counters, files
<1> QED  BY <1>2, <1>3, <1>4, <1>5, <1>6, <1>7, <1>8, <1>9, <1>10, OneSteps

\* An INSERT into a table there is not makes an empty one.
LEMMA CreateKeeps ==
  ASSUME StorageInv, NEW p \in Proc, OpenForInsert(p), path = <<>>,
         file' = Append(file, Empty), path' = <<Len(file')>>
  PROVE  StorageInv'
<1> USE DEF StorageInv, ProcessInv
<1>1. /\ file' \in Seq(Table) /\ Len(file') = Len(file) + 1 /\ Len(file) \in Nat
      /\ Len(file') \in Nat /\ \A i \in 1..Len(file) : file'[i] = file[i]
  BY NewFile, EmptyIsTable DEF TypeInv
<1>2. /\ Named = {} /\ shared = {} /\ shared' = {} /\ full' = full /\ temp' = temp
      /\ full \in Nat
  BY DEF Named, TypeInv, OpenForInsert, counters
<1>3. \A q \in Proc : fd[q] = 0 /\ ~Deleting(q)
  BY <1>2, DeletingHolds DEF CallInv
<1>4. Last(path') = Len(file') /\ Named' = {Len(file')} /\ path' \in Seq(1..Len(file'))
  <2>1. Len(path') = 1 /\ path'[1] = Len(file')
    BY <1>1
  <2>2. 1..1 = {1} /\ Len(file') \in 1..Len(file')
    BY <1>1
  <2>3. Named' = {Len(file')}
    BY <2>1, <2>2 DEF Named
  <2>4. Last(path') = Len(file')
    BY <2>1 DEF Last
  <2> QED  BY <2>2, <2>3, <2>4
<1>5. TypeInv'
  <2>1. \A j, k \in 1..Len(path') : path'[j] = path'[k] => j = k
    OBVIOUS
  <2>2. temp' \in 0..Len(file') /\ temp' \notin Named'
    BY <1>1, <1>2, <1>4 DEF TypeInv
  <2> QED  BY <1>1, <1>2, <1>4, <2>1, <2>2 DEF TypeInv, OpenForInsert, Step, counters
<1>6. Stays
  BY <1>1, <1>2 DEF Stays
<1>7. \A q \in Proc \ {p} : Rests(q)
  BY DEF TypeInv, Rests, OpenForInsert, Step, counters
<1>8. \A q \in Proc \ {p} : LeftAlone(q)
  BY <1>3 DEF LeftAlone, CallInv
<1>9. CallInv(p)'
  <2>1. fd'[p] = Len(file') /\ fd'[p] \in Named' /\ fd'[p] # 0
    BY <1>1, <1>4 DEF TypeInv, OpenForInsert
  <2> QED  BY <2>1 DEF TypeInv, CallInv, Kind, LockMode, OpenForInsert, Step
<1>10. InsertInv(p)'
  BY DEF TypeInv, InsertInv, Kind, OpenForInsert, Step
<1>11. DeleteInv(p)'
  BY DEF TypeInv, DeleteInv, Deleting, Kind, OpenForInsert, Step
<1>12. LoadedInv(p)'
  <2>1. loaded'[p] = loaded[p] /\ call'[p].kind # "read"
    BY DEF TypeInv, Kind, OpenForInsert
  <2> QED  BY <1>5, <1>6, <2>1, LoadedRowsStay
<1>13. FoundInv(p)'
  BY DEF TypeInv, FoundInv, Kind, OpenForInsert, Step
<1>14. \A q \in Proc \ {p} : ExclusionInv(p, q)' /\ ExclusionInv(q, p)'
  BY DEF TypeInv, ExclusionInv, CallInv, Deleting, Kind, OpenForInsert, Step
<1> QED  BY <1>5, <1>6, <1>7, <1>8, <1>9, <1>10, <1>11, <1>12, <1>13, <1>14, OneSteps

LEMMA OpenForInsertKeeps ==
  ASSUME StorageInv, NEW p \in Proc, OpenForInsert(p)
  PROVE  StorageInv'
<1> USE DEF StorageInv, ProcessInv
<1>1. CASE path = <<>> /\ file' = Append(file, Empty) /\ path' = <<Len(file')>>
  BY <1>1, CreateKeeps
<1>2. CASE path # <<>> /\ UNCHANGED <<file, path>>
  <2>1. UNCHANGED <<files, full>>
    BY <1>2 DEF OpenForInsert, counters, files
  <2>2. Last(path) \in Named /\ Last(path) \in Nat /\ Last(path) # 0 /\ Last(path') = Last(path)
    <3>1. Last(path) \in Named
      BY <1>2 DEF TypeInv, Named, Last
    <3> QED  BY <1>2, <3>1, NamedInodes
  <2>3. TypeInv'
    <3>1. /\ at' = [at EXCEPT ![p] = "lock"] /\ fd' = [fd EXCEPT ![p] = Last(path)]
          /\ UNCHANGED <<call, draft, lock, buffer, result, loaded>>
      BY <2>2 DEF OpenForInsert, Step
    <3>2. /\ fd' \in [Proc -> Nat]
          /\ at' \in [Proc -> {"idle", "open", "lock", "locked", "flush", "giveup", "rename",
                               "remove", "close"}]
      BY <2>2, <3>1 DEF TypeInv
    <3> QED  BY SMTT(30), <2>1, <3>1, <3>2 DEF TypeInv, Named, files
  <2>4. Stays /\ \A q \in Proc \ {p} : LeftAlone(q)
    BY <2>1, SameFiles DEF files
  <2>5. \A q \in Proc \ {p} : Rests(q)
    BY DEF TypeInv, Rests, OpenForInsert, Step, counters
  <2>6. CallInv(p)'
    BY <2>1, <2>2 DEF TypeInv, CallInv, Named, Kind, LockMode, OpenForInsert, Step, files
  <2>7. InsertInv(p)' /\ DeleteInv(p)' /\ FoundInv(p)'
    BY DEF TypeInv, InsertInv, DeleteInv, FoundInv, Deleting, Kind, OpenForInsert, Step
  <2>8. LoadedInv(p)'
    <3>1. loaded'[p] = loaded[p] /\ call'[p].kind # "read"
      BY DEF TypeInv, Kind, OpenForInsert
    <3> QED  BY <2>3, <2>4, <3>1, LoadedRowsStay
  <2>9. \A q \in Proc \ {p} : ExclusionInv(p, q)' /\ ExclusionInv(q, p)'
    BY DEF TypeInv, ExclusionInv, CallInv, Deleting, Kind, OpenForInsert, Step
  <2> QED  BY <2>3, <2>4, <2>5, <2>6, <2>7, <2>8, <2>9, OneSteps
<1> QED  BY <1>1, <1>2 DEF OpenForInsert

\* The write of an INSERT that meets no full disk.
Written(p) == file' = [file EXCEPT ![fd[p]] = Appended(@, buffer[p])]

\* It leaves a file a file, and to a table no two DELETEs write it adds the
\* row behind the others, with the columns of the table.
LEMMA WrittenRow ==
  ASSUME StorageInv, NEW p \in Proc, at[p] = "flush", Kind(p) = "insert", Written(p)
  PROVE  /\ fd[p] \in Named /\ fd[p] \in 1..Len(file)
         /\ file' \in Seq(Table) /\ Len(file') = Len(file)
         /\ \A j \in 1..Len(file) : j # fd[p] => file'[j] = file[j]
         /\ fd[p] \notin shared =>
              /\ file'[fd[p]].columns \in Column
              /\ file[fd[p]].columns \in {"none", file'[fd[p]].columns}
              /\ file'[fd[p]].rows = Append(file[fd[p]].rows, buffer[p].rows[1])
              /\ buffer[p].rows[1] \in Row
              /\ \/ buffer[p].rows[1].id \notin Ids(file[fd[p]].rows)
                 \/ MaxId \in Ids(file[fd[p]].rows)
<1> DEFINE i == fd[p]
           old == file[i]
           b == buffer[p]
           r == b.rows[1]
           new == Appended(old, b)
           c == IF b.columns = "none" THEN old.columns ELSE b.columns
<1> USE DEF StorageInv, ProcessInv
<1>1. /\ i \in Named /\ i \in 1..Len(file) /\ Len(file) \in Nat
      /\ old.rows \in Seq(Row) /\ old.columns \in Column \cup {"none", "blank", "torn"}
  <2>1. fd[p] # 0 /\ Len(file) \in Nat
    BY DEF CallInv, TypeInv
  <2> QED  BY <2>1, OpenFile
<1>2. call[p] \in Statement /\ call[p].column \in Column
  BY StatementFields DEF CallInv, Kind
<1>3. b.columns \in Column \cup {"none"} /\ Len(b.rows) = 1 /\ b.rows \in Seq(Row)
  BY DEF InsertInv, TypeInv, Contents
<1>4. b.rows = <<r>> /\ r \in Row
  <2> HIDE DEF b
  <2> QED  BY <1>3
<1>5. old.rows \o b.rows = Append(old.rows, r) /\ old.rows \o b.rows \in Seq(Row)
  <2> HIDE DEF b, old, r
  <2> QED  BY <1>1, <1>4
<1>6. new = Torn \/ (new = [columns |-> c, rows |-> old.rows \o b.rows] /\ c \in Column)
  <2> HIDE DEF b, old
  <2> QED  BY <1>1, <1>3 DEF Appended
<1>7. new \in Table
  <2>1. Torn \in Table
    BY DEF Torn, Table, Contents
  <2>2. \A k \in Column : k \notin {"none", "torn"}
    BY StorageAssumption
  <2>3. ASSUME c \in Column
        PROVE  [columns |-> c, rows |-> old.rows \o b.rows] \in Table
    <3> HIDE DEF c, old, b
    <3> QED  BY <1>5, <2>2, <2>3 DEF Table, Contents
  <2> HIDE DEF new, c, old, b
  <2> QED  BY <1>6, <2>1, <2>3
<1>8. /\ file' \in Seq(Table) /\ Len(file') = Len(file) /\ file'[i] = new
      /\ \A j \in 1..Len(file) : j # i => file'[j] = file[j]
  <2>1. file' = [file EXCEPT ![i] = new]
    BY DEF Written
  <2> HIDE DEF new, i
  <2> QED  BY <1>1, <1>7, <2>1, WrittenFile
<1>9. ASSUME i \notin shared
      PROVE  /\ new.columns \in Column /\ old.columns \in {"none", new.columns}
             /\ new.rows = Append(old.rows, r)
             /\ r.id \notin Ids(old.rows) \/ MaxId \in Ids(old.rows)
  <2>1. /\ old.columns \in {"none", call[p].column}
        /\ b.columns = IF old.columns = "none" THEN call[p].column ELSE "none"
        /\ r.id \notin Ids(old.rows) \/ MaxId \in Ids(old.rows)
    BY <1>9 DEF InsertInv, ColumnsMatch
  <2> HIDE DEF b, old, r
  <2>2. new = [columns |-> c, rows |-> Append(old.rows, r)] /\ c = call[p].column
    BY <1>2, <1>5, <2>1, StorageAssumption DEF Appended
  <2> HIDE DEF new, c
  <2> QED  BY <1>2, <2>1, <2>2
<1> HIDE DEF new, old, r
<1> QED  BY <1>1, <1>4, <1>8, <1>9 DEF old, r

LEMMA FlushInsertKeeps ==
  ASSUME StorageInv, NEW p \in Proc, FlushInsert(p)
  PROVE  StorageInv'
<1> USE DEF StorageInv, ProcessInv
<1>1. /\ fd[p] \in Named /\ fd[p] \in 1..Len(file)
      /\ file' \in Seq(Table) /\ Len(file') = Len(file) /\ Len(file) \in Nat
      /\ \A j \in 1..Len(file) : j # fd[p] => file'[j] = file[j]
  <2>1. CASE file' = file
    <3>1. fd[p] # 0
      BY DEF FlushInsert, CallInv
    <3>2. TypeInv /\ file \in Seq(Table)
      BY DEF TypeInv
    <3> QED  BY <2>1, <3>1, <3>2, OpenFile, NamedInodes
  <2>2. CASE Written(p)
    <3>1. at[p] = "flush" /\ Kind(p) = "insert"
      BY DEF FlushInsert
    <3>2. Len(file) \in Nat
      BY NamedInodes
    <3> QED  BY <2>2, <3>1, <3>2, WrittenRow
  <2> QED  BY <2>1, <2>2 DEF FlushInsert, Written
<1>2. /\ full' \in Nat /\ full' >= full
      /\ path' = path /\ temp' = temp /\ shared' = shared /\ Named' = Named
  <2>1. full' = full \/ full' = full + 1
    BY DEF FlushInsert
  <2> QED  BY <2>1 DEF TypeInv, FlushInsert, Named
<1>3. TypeInv'
  BY <1>1, <1>2 DEF TypeInv, FlushInsert, Finish
<1>4. Stays
  <2> SUFFICES ASSUME NEW i \in Named \ shared
               PROVE  /\ Len(file[i].rows) <= Len(file'[i].rows)
                      /\ \A j \in 1..Len(file[i].rows) : file'[i].rows[j] = file[i].rows[j]
    BY <1>1, <1>2 DEF Stays
  <2>1. i \in 1..Len(file) /\ file[i].rows \in Seq(Row) /\ Len(file[i].rows) \in Nat
    BY NamedInodes, InodeIsTable
  <2>2. CASE file' = file
    BY <2>1, <2>2
  <2>3. CASE Written(p) /\ i = fd[p]
    <3>1. file'[i].rows = Append(file[i].rows, buffer[p].rows[1]) /\ buffer[p].rows[1] \in Row
      BY <2>3, WrittenRow DEF FlushInsert
    <3> QED  BY <2>1, <3>1, AppendProperties
  <2>4. CASE i # fd[p]
    BY <1>1, <2>1, <2>4
  <2> QED  BY <2>2, <2>3, <2>4 DEF FlushInsert, Written
<1>5. \A q \in Proc \ {p} : Rests(q)
  BY DEF TypeInv, Rests, FlushInsert, Finish
<1>6. \A q \in Proc \ {p} : LeftAlone(q)
  <2> SUFFICES ASSUME NEW q \in Proc \ {p} PROVE LeftAlone(q)
    OBVIOUS
  <2>1. lock[p] = "exclusive" /\ ExclusionInv(p, q)
    BY DEF FlushInsert, CallInv, LockMode
  <2>2. at[q] \in {"flush", "rename"} => fd[q] # fd[p] /\ fd[q] \in 1..Len(file)
    BY <2>1, OpenFile DEF CallInv, ExclusionInv, LockMode
  <2>3. at[q] \in {"flush", "rename"} => file'[fd[q]] = file[fd[q]]
    BY <1>1, <2>2
  <2>4. Deleting(q) /\ draft[q] \notin shared => file'[draft[q]] = file[draft[q]]
    BY <1>1, DeletingHolds
  <2>5. Deleting(q) /\ draft[q] \in shared => temp = 0 \/ temp \in shared
    BY DEF DeleteInv
  <2> QED  BY <1>2, <2>3, <2>4, <2>5 DEF LeftAlone
<1>7. CallInv(p)'
  BY <1>2 DEF TypeInv, CallInv, Kind, LockMode, FlushInsert, Finish
<1>8. InsertInv(p)' /\ DeleteInv(p)' /\ FoundInv(p)'
  BY DEF TypeInv, InsertInv, DeleteInv, FoundInv, Deleting, Kind, FlushInsert, Finish
<1>9. LoadedInv(p)'
  <2>1. loaded'[p] = loaded[p] /\ call'[p].kind # "read"
    BY DEF TypeInv, Kind, FlushInsert
  <2> QED  BY <1>3, <1>4, <2>1, LoadedRowsStay
<1>10. \A q \in Proc \ {p} : ExclusionInv(p, q)' /\ ExclusionInv(q, p)'
  BY <1>2 DEF TypeInv, ExclusionInv, CallInv, Deleting, Kind, LockMode, FlushInsert, Finish
<1> QED  BY <1>3, <1>4, <1>5, <1>6, <1>7, <1>8, <1>9, <1>10, OneSteps

\* What a DELETE writes is a table.
LEMMA CopyIsTable ==
  ASSUME NEW f \in Table, f # Torn, NEW where
  PROVE  /\ Copy(f, where).columns \in Column \cup {"blank"}
         /\ Copy(f, where) \in Contents
<1> DEFINE w == Without(f.rows, Matching(f.rows, where))
           c == IF f.columns = "none" THEN "blank" ELSE f.columns
<1>1. f.rows \in Seq(Row) /\ f.columns \in Column \cup {"none", "blank"}
  BY DEF Table, Contents, Torn
<1>2. w \in Seq(Row)
  BY <1>1, WithoutIsPart
<1>3. Copy(f, where) = [columns |-> c, rows |-> w]
  BY DEF Copy
<1>4. c \in Column \cup {"blank"}
  BY <1>1
<1> HIDE DEF w, c
<1> QED  BY <1>2, <1>3, <1>4 DEF Contents

LEMMA CreateTempKeeps ==
  ASSUME StorageInv, NEW p \in Proc, CreateTemp(p)
  PROVE  StorageInv'
<1> DEFINE f == file[fd[p]]
           inode == IF temp = 0 THEN Len(file) + 1 ELSE temp
           others == { q \in Proc \ {p} : Deleting(q) }
           unknown == call[p].where = UnknownColumn /\ f.rows # <<>>
           b == [columns |-> IF f.columns = "none" THEN "blank" ELSE f.columns,
                 rows |-> IF unknown THEN <<>>
                          ELSE Without(f.rows, Matching(f.rows, call[p].where))]
<1> USE DEF StorageInv, ProcessInv
<1>0. /\ at[p] = "locked" /\ Kind(p) = "delete" /\ f # Torn
      /\ at' = [at EXCEPT ![p] = IF unknown THEN "giveup" ELSE "flush"]
      /\ file' = IF temp = 0 THEN Append(file, Empty) ELSE [file EXCEPT ![temp] = Empty]
      /\ temp' = inode
      /\ draft' = [draft EXCEPT ![p] = inode]
      /\ shared' = IF others = {} THEN shared \ {inode}
                   ELSE shared \cup {inode} \cup { draft[q] : q \in others }
      /\ buffer' = [buffer EXCEPT ![p] = b]
      /\ UNCHANGED <<path, call, fd, lock, result, loaded, full>>
  BY DEF CreateTemp, Step, counters
<1>1. /\ f \in Table /\ fd[p] \in Named /\ fd[p] # 0 /\ lock[p] = "exclusive"
      /\ ~Deleting(p) /\ Len(file) \in Nat
  <2>1. fd[p] # 0 /\ lock[p] = "exclusive" /\ ~Deleting(p)
    BY <1>0 DEF CallInv, LockMode, Deleting
  <2>2. TypeInv
    OBVIOUS
  <2> QED  BY <2>1, <2>2, OpenFile, NamedInodes
<1>2. b.columns \in Column \cup {"blank"} /\ b \in Contents
  <2>1. /\ Copy(f, call[p].where).columns \in Column \cup {"blank"}
        /\ Copy(f, call[p].where) \in Contents
    BY <1>0, <1>1, CopyIsTable
  <2>2. CASE unknown
    <3>1. b = [columns |-> Copy(f, call[p].where).columns, rows |-> <<>>]
      BY <2>2 DEF Copy
    <3> HIDE DEF b, f
    <3> QED  BY <2>1, <3>1, EmptyIsTable DEF Contents
  <2>3. CASE ~unknown
    <3>1. b = Copy(f, call[p].where)
      BY <2>3 DEF Copy
    <3> QED  BY <2>1, <3>1
  <2> QED  BY <2>2, <2>3
<1>3. Named \subseteq 1..Len(file) /\ inode \notin Named /\ Named' = Named
  <2>1. Named \subseteq 1..Len(file) /\ temp \notin Named
    BY NamedInodes DEF TypeInv
  <2> QED  BY SMTT(30), <1>0, <1>1, <2>1 DEF Named
<1>4. /\ file' \in Seq(Table) /\ Len(file) <= Len(file') /\ Len(file') \in Nat
      /\ inode \in 1..Len(file') /\ file'[inode] = Empty
      /\ \A i \in 1..Len(file) : i # inode => file'[i] = file[i]
  <2>1. CASE temp = 0
    <3>1. file' = Append(file, Empty)
      BY <1>0, <2>1
    <3> QED  BY <1>1, <2>1, <3>1, NewFile, EmptyIsTable
  <2>2. CASE temp # 0
    <3>1. file' = [file EXCEPT ![temp] = Empty] /\ temp \in 1..Len(file)
      BY <1>0, <2>2 DEF TypeInv
    <3>2. /\ file' \in Seq(Table) /\ Len(file') = Len(file) /\ file'[temp] = Empty
          /\ \A i \in 1..Len(file) : i # temp => file'[i] = file[i]
      BY <3>1, WrittenFile, EmptyIsTable
    <3>3. inode = temp
      BY <2>2
    <3> HIDE DEF inode, f
    <3> QED  BY <1>1, <3>1, <3>2, <3>3
  <2> QED  BY <2>1, <2>2
<1>5. \A q \in others : /\ draft[q] \in shared' /\ inode \in shared'
                        /\ draft[q] \in shared \/ draft[q] \notin Named
  BY <1>0, DeletingHolds
<1>6. \A i \in Named : i \in shared' <=> i \in shared
  BY <1>0, <1>3, <1>5
<1>7. shared' # {} => Len(path) >= 2
  <2>1. CASE others = {}
    BY <1>0, <2>1 DEF TypeInv
  <2>2. CASE others # {}
    <3>1. PICK q \in others : TRUE
      BY <2>2
    <3>2. fd[q] \in Named /\ fd[q] # fd[p] /\ fd[p] \in Named
      BY <1>1, <3>1, DeletingHolds DEF ExclusionInv
    <3>3. PICK j \in 1..Len(path), k \in 1..Len(path) : path[j] # path[k]
      BY <3>2 DEF Named
    <3>4. path \in Seq(1..Len(file))
      BY DEF TypeInv
    <3>5. Len(path) \in Nat
      BY <3>4, LengthIsNat
    <3>6. j # k
      BY <3>3
    <3> QED  BY <3>5, <3>6
  <2> QED  BY <2>1, <2>2
<1>8. TypeInv'
  <2>1. path' \in Seq(1..Len(file'))
    <3> DEFINE I == 1..Len(file)
               J == 1..Len(file')
    <3>1. I \subseteq J
      BY <1>1, <1>4
    <3>2. path \in Seq(I)
      BY DEF TypeInv
    <3> HIDE DEF I, J
    <3>3. path \in Seq(J)
      BY <3>1, <3>2
    <3> QED  BY <1>0, <3>3 DEF J
  <2>2. \A j, k \in 1..Len(path') : path'[j] = path'[k] => j = k
    BY <1>0 DEF TypeInv
  <2>3. temp' \in 0..Len(file') /\ temp' \notin Named' /\ inode \in Nat
    BY <1>0, <1>3, <1>4
  <2>4. shared' # {} => Len(path') >= 2
    BY <1>0, <1>7
  <2>5. /\ buffer' \in [Proc -> Contents] /\ draft' \in [Proc -> Nat]
        /\ at' \in [Proc -> {"idle", "open", "lock", "locked", "flush", "giveup", "rename",
                             "remove", "close"}]
    <3> HIDE DEF b, inode, unknown
    <3> QED  BY <1>0, <1>2, <2>3 DEF TypeInv
  <2> HIDE DEF b, inode, unknown, others, f
  <2> QED  BY <1>0, <1>4, <2>1, <2>2, <2>3, <2>4, <2>5 DEF TypeInv
<1> HIDE DEF inode, others, b
<1>9. Stays
  <2>1. \A i \in Named : file'[i] = file[i] /\ Len(file[i].rows) \in Nat
    BY <1>3, <1>4, InodeIsTable
  <2> QED  BY SMTT(30), <1>0, <1>3, <1>4, <1>6, <2>1 DEF Stays, TypeInv
<1>10. \A q \in Proc \ {p} : Rests(q)
  BY <1>0 DEF TypeInv, Rests
<1>11. \A q \in Proc \ {p} : LeftAlone(q)
  <2> SUFFICES ASSUME NEW q \in Proc \ {p} PROVE LeftAlone(q)
    OBVIOUS
  <2>1. at[q] \in {"flush", "rename"} => file'[fd[q]] = file[fd[q]]
    BY <1>3, <1>4, OpenFile DEF CallInv
  <2>2. Deleting(q) => draft[q] \in shared' /\ temp' \in shared'
    BY <1>0, <1>5 DEF others
  <2> QED  BY <2>1, <2>2 DEF LeftAlone
<1>12. CallInv(p)'
  BY <1>0, <1>1, <1>3 DEF TypeInv, CallInv, Kind, LockMode
<1>13. InsertInv(p)' /\ FoundInv(p)'
  BY <1>0 DEF TypeInv, InsertInv, FoundInv, Kind
<1>14. DeleteInv(p)'
  <2>1. /\ draft'[p] = inode /\ buffer'[p] = b /\ temp' = inode /\ call'[p] = call[p]
        /\ fd'[p] = fd[p] /\ at'[p] \in {"flush", "giveup"}
    BY <1>0 DEF TypeInv
  <2>2. at'[p] = "flush" => buffer'[p] = Copy(file'[fd[p]], call[p].where)
    <3>1. at'[p] = "flush" => ~unknown
      BY <1>0 DEF TypeInv
    <3>2. file'[fd[p]] = f
      BY <1>1, <1>3, <1>4
    <3> QED  BY <2>1, <3>1, <3>2 DEF Copy, b
  <2>3. Copy(file[fd[p]], call[p].where)' = Copy(file'[fd[p]], call[p].where)
    BY <1>0 DEF Copy
  <2> QED  BY <1>2, <1>4, <2>1, <2>2, <2>3 DEF DeleteInv
<1>15. LoadedInv(p)'
  <2>1. loaded'[p] = loaded[p] /\ call'[p].kind # "read"
    BY <1>0 DEF TypeInv, Kind
  <2> QED  BY <1>8, <1>9, <2>1, LoadedRowsStay
<1>16. \A q \in Proc \ {p} : ExclusionInv(p, q)' /\ ExclusionInv(q, p)'
  <2> SUFFICES ASSUME NEW q \in Proc \ {p}
               PROVE  ExclusionInv(p, q)' /\ ExclusionInv(q, p)'
    OBVIOUS
  <2>1. /\ lock' = lock /\ fd' = fd /\ at'[q] = at[q] /\ draft'[q] = draft[q]
        /\ draft'[p] = inode /\ call' = call
    BY <1>0 DEF TypeInv
  <2>2. Deleting(q)' => draft[q] \in shared' /\ inode \in shared'
    <3>1. Deleting(q)' => Deleting(q)
      BY <2>1 DEF Deleting, Kind
    <3> QED  BY <1>5, <3>1 DEF others
  <2> QED  BY <2>1, <2>2 DEF ExclusionInv
<1> QED  BY <1>8, <1>9, <1>10, <1>11, <1>12, <1>13, <1>14, <1>15, <1>16, OneSteps

\* What a DELETE leaves where it writes: what it writes alone, or with others.
LEMMA OverwrittenIsTable ==
  ASSUME NEW old \in Table, NEW new \in Contents, new.columns \in Column \cup {"blank"},
         NEW f \in Overwritten(old, new)
  PROVE  f \in Table /\ (old = Empty => f = new)
<1>1. new \in Table /\ Torn \in Table
  BY StorageAssumption DEF Table, Contents, Torn
<1>2. old.rows \in Seq(Row) /\ new.rows \in Seq(Row)
  BY DEF Table, Contents
<1>3. ASSUME NEW i \in 1..Len(old.rows)
      PROVE  [new EXCEPT !.rows = @ \o SubSeq(old.rows, i, Len(old.rows))] \in Table
  <2> DEFINE rest == SubSeq(old.rows, i, Len(old.rows))
             all == new.rows \o rest
  <2>1. rest \in Seq(Row)
    BY <1>2, SubSeqProperties
  <2>2. all \in Seq(Row)
    <3> HIDE DEF rest
    <3> QED  BY <1>2, <2>1
  <2>3. [new EXCEPT !.rows = all] = [columns |-> new.columns, rows |-> all]
    <3> HIDE DEF all
    <3> QED  BY DEF Contents
  <2>4. [columns |-> new.columns, rows |-> all] \in Table
    <3> HIDE DEF all
    <3> QED  BY <2>2, StorageAssumption DEF Table, Contents
  <2> QED  BY <2>3, <2>4
<1>4. f \in {new, Torn} \/ \E i \in 1..Len(old.rows) :
        f = [new EXCEPT !.rows = @ \o SubSeq(old.rows, i, Len(old.rows))]
  BY DEF Overwritten
<1>5. old = Empty => f = new
  BY DEF Overwritten
<1> QED  BY <1>1, <1>3, <1>4, <1>5

LEMMA FlushTempKeeps ==
  ASSUME StorageInv, NEW p \in Proc, FlushTemp(p)
  PROVE  StorageInv'
<1> USE DEF StorageInv, ProcessInv
<1>1. /\ at[p] \in {"flush", "giveup"} /\ Kind(p) = "delete" /\ Deleting(p)
      /\ at' = [at EXCEPT ![p] = IF @ = "flush" THEN "rename" ELSE "remove"]
      /\ UNCHANGED <<path, temp, shared, call, fd, draft, lock, buffer, result, loaded>>
      /\ full' = full \/ full' = full + 1
  BY DEF FlushTemp, Deleting
<1>2. /\ draft[p] \in 1..Len(file) /\ file[draft[p]] \in Table
      /\ buffer[p] \in Contents /\ buffer[p].columns \in Column \cup {"blank"}
  BY <1>1, DeletingHolds, InodeIsTable DEF DeleteInv, TypeInv
<1>3. /\ file' \in Seq(Table) /\ Len(file') = Len(file)
      /\ \A j \in 1..Len(file) : j # draft[p] => file'[j] = file[j]
      /\ draft[p] \notin shared =>
           file'[draft[p]] = buffer[p] \/ (file'[draft[p]] = Empty /\ full' > 0)
  <2>1. CASE file' = file /\ full' = full + 1
    BY <1>1, <2>1 DEF TypeInv, DeleteInv
  <2>2. CASE \E f \in Overwritten(file[draft[p]], buffer[p]) :
               file' = [file EXCEPT ![draft[p]] = f]
    <3>1. PICK f \in Overwritten(file[draft[p]], buffer[p]) :
            file' = [file EXCEPT ![draft[p]] = f]
      BY <2>2
    <3>2. f \in Table /\ (file[draft[p]] = Empty => f = buffer[p])
      BY <1>2, OverwrittenIsTable
    <3>3. /\ file' \in Seq(Table) /\ Len(file') = Len(file) /\ file'[draft[p]] = f
          /\ \A j \in 1..Len(file) : j # draft[p] => file'[j] = file[j]
      BY <1>2, <3>1, <3>2, WrittenFile
    <3>4. draft[p] \notin shared => file[draft[p]] = Empty
      BY <1>1 DEF DeleteInv
    <3> QED  BY <3>2, <3>3, <3>4
  <2> QED  BY <2>1, <2>2 DEF FlushTemp
<1>4. full' \in Nat /\ full' >= full /\ Named' = Named /\ Len(file) \in Nat
  BY <1>1 DEF TypeInv, Named
<1>5. TypeInv'
  BY <1>1, <1>3, <1>4 DEF TypeInv
<1>6. \A i \in Named \ shared : i \in 1..Len(file) /\ file'[i] = file[i]
  BY <1>1, <1>3, NamedInodes, DeletingHolds
<1>7. Stays
  <2>1. \A i \in Named \ shared : Len(file[i].rows) \in Nat
    BY <1>6, InodeIsTable
  <2> QED  BY <1>1, <1>3, <1>4, <1>6, <2>1 DEF Stays
<1>8. \A q \in Proc \ {p} : Rests(q)
  BY <1>1 DEF TypeInv, Rests
<1>9. \A q \in Proc \ {p} : LeftAlone(q)
  <2> SUFFICES ASSUME NEW q \in Proc \ {p} PROVE LeftAlone(q)
    OBVIOUS
  <2>1. at[q] \in {"flush", "rename"} /\ fd[q] \notin shared => file'[fd[q]] = file[fd[q]]
    BY <1>6 DEF CallInv
  <2>2. Deleting(q) => draft[q] \in shared /\ (temp = 0 \/ temp \in shared)
    BY <1>1 DEF ExclusionInv, DeleteInv
  <2> QED  BY <1>1, <2>1, <2>2 DEF LeftAlone
<1>10. CallInv(p)'
  BY <1>1, <1>4 DEF TypeInv, CallInv, Kind, LockMode
<1>11. InsertInv(p)' /\ FoundInv(p)'
  BY <1>1 DEF TypeInv, InsertInv, FoundInv, Kind
<1>12. DeleteInv(p)'
  <2>1. /\ at'[p] \in {"rename", "remove"} /\ (at'[p] = "rename" => at[p] = "flush")
    BY <1>1 DEF TypeInv
  <2>2. fd[p] \in Named
    BY <1>1, DeletingHolds
  <2>3. at'[p] = "rename" /\ fd[p] \notin shared =>
          buffer[p] = Copy(file'[fd[p]], call[p].where)
    <3> SUFFICES ASSUME at'[p] = "rename", fd[p] \notin shared
                 PROVE  buffer[p] = Copy(file'[fd[p]], call[p].where)
      OBVIOUS
    <3>1. file'[fd[p]] = file[fd[p]]
      BY <1>6, <2>2
    <3>2. buffer[p] = Copy(file[fd[p]], call[p].where)
      BY <1>1, <2>1 DEF DeleteInv
    <3> QED  BY <3>1, <3>2
  <2>4. Copy(file[fd[p]], call[p].where)' = Copy(file'[fd[p]], call[p].where)
    BY <1>1 DEF Copy
  <2>5. /\ draft[p] \in shared => temp = 0 \/ temp \in shared
        /\ draft[p] \notin shared => temp = draft[p]
    BY <1>1 DEF DeleteInv
  <2> QED  BY <1>1, <1>2, <1>3, <2>1, <2>3, <2>4, <2>5 DEF DeleteInv
<1>13. LoadedInv(p)'
  <2>1. loaded'[p] = loaded[p] /\ call'[p].kind # "read"
    BY <1>1 DEF Kind
  <2> QED  BY <1>5, <1>7, <2>1, LoadedRowsStay
<1>14. \A q \in Proc \ {p} : ExclusionInv(p, q)' /\ ExclusionInv(q, p)'
  <2> SUFFICES ASSUME NEW q \in Proc \ {p}
               PROVE  ExclusionInv(p, q)' /\ ExclusionInv(q, p)'
    OBVIOUS
  <2>1. Deleting(q)' => Deleting(q)
    BY <1>1 DEF TypeInv, Deleting, Kind
  <2> QED  BY <1>1, <2>1 DEF ExclusionInv
<1> QED  BY <1>5, <1>7, <1>8, <1>9, <1>10, <1>11, <1>12, <1>13, <1>14, OneSteps

\* Whose file rename finds at data/<table>.tmp.
LEMMA RenamedFile ==
  ASSUME StorageInv, NEW p \in Proc, RenameTemp(p)
  PROVE  /\ Deleting(p) /\ at[p] = "rename"
         /\ temp \in 1..Len(file) /\ temp \notin Named
         /\ temp \in shared \/ (temp = draft[p] /\ draft[p] \notin shared)
BY DEF StorageInv, ProcessInv, RenameTemp, CallInv, Deleting, DeleteInv, TypeInv

LEMMA RenameTempKeeps ==
  ASSUME StorageInv, NEW p \in Proc, RenameTemp(p)
  PROVE  StorageInv'
<1> USE DEF StorageInv, ProcessInv
<1>1. /\ at[p] = "rename" /\ Deleting(p) /\ temp \in 1..Len(file) /\ temp \notin Named
      /\ path' = Append(path, temp) /\ temp' = 0 /\ at' = [at EXCEPT ![p] = "close"]
      /\ result' = [result EXCEPT ![p] = SUCCESS]
      /\ UNCHANGED <<file, shared, call, fd, draft, lock, buffer, loaded, full>>
  BY RenamedFile DEF RenameTemp, Finish, counters
<1>2. /\ path' \in Seq(1..Len(file')) /\ Named' = Named \cup {temp}
      /\ \A j, k \in 1..Len(path') : path'[j] = path'[k] => j = k
      /\ Len(path') = Len(path) + 1
  <2>1. temp \in Nat \ Named /\ Len(file) \in Nat
    BY <1>1 DEF TypeInv
  <2> QED  BY <1>1, <2>1, NextName
<1>3. TypeInv'
  <2>1. 0 \notin Named' /\ 0 \in 0..Len(file')
    BY <1>1, <1>2, NamedInodes
  <2>2. shared' # {} => Len(path') >= 2
    BY <1>1, <1>2 DEF TypeInv
  <2> QED  BY <1>1, <1>2, <2>1, <2>2 DEF TypeInv
<1>4. Stays
  <2>1. \A i \in Named : Len(file[i].rows) \in Nat
    BY NamedInodes, InodeIsTable
  <2> QED  BY <1>1, <1>2, <2>1 DEF Stays, TypeInv
<1>5. \A q \in Proc \ {p} : Rests(q)
  BY <1>1 DEF TypeInv, Rests
<1>6. \A q \in Proc \ {p} : LeftAlone(q)
  BY <1>1 DEF LeftAlone, ExclusionInv
<1>7. CallInv(p)'
  BY <1>1, <1>2 DEF TypeInv, CallInv, Kind, LockMode
<1>8. InsertInv(p)' /\ DeleteInv(p)' /\ FoundInv(p)'
  BY <1>1 DEF TypeInv, InsertInv, DeleteInv, FoundInv, Deleting, Kind
<1>9. LoadedInv(p)'
  <2>1. loaded'[p] = loaded[p] /\ call'[p].kind # "read"
    BY <1>1 DEF Deleting, Kind
  <2> QED  BY <1>3, <1>4, <2>1, LoadedRowsStay
<1>10. \A q \in Proc \ {p} : ExclusionInv(p, q)' /\ ExclusionInv(q, p)'
  BY <1>1 DEF TypeInv, ExclusionInv, Deleting, Kind
<1> QED  BY <1>3, <1>4, <1>5, <1>6, <1>7, <1>8, <1>9, <1>10, OneSteps

LEMMA StorageInvStep ==
  ASSUME StorageInv, [Next]_vars
  PROVE  StorageInv'
<1>1. CASE UNCHANGED vars
  <2>1. UNCHANGED <<file, path, temp, shared, call, at, fd, draft, lock, buffer, result,
                    loaded, full>>
    BY <1>1 DEF vars, files, counters
  <2>2. TypeInv'
    BY <2>1 DEF StorageInv, TypeInv, Named
  <2>3. ASSUME NEW p \in Proc PROVE ProcessInv(p)'
    <3>1. CallInv(p)' /\ LoadedInv(p)' /\ FoundInv(p)'
      BY <2>1 DEF StorageInv, ProcessInv, CallInv, LoadedInv, FoundInv, Kind, LockMode, Named
    <3>2. InsertInv(p)'
      BY <2>1 DEF StorageInv, ProcessInv, InsertInv, Kind, ColumnsMatch
    <3>3. DeleteInv(p)'
      BY <2>1 DEF StorageInv, ProcessInv, DeleteInv, Deleting, Kind, Copy
    <3> QED  BY <3>1, <3>2, <3>3 DEF ProcessInv
  <2>4. \A p, q \in Proc : p # q => ExclusionInv(p, q)'
    BY <2>1 DEF StorageInv, ExclusionInv, Deleting, Kind
  <2> QED  BY <2>2, <2>3, <2>4 DEF StorageInv
<1>2. CASE Next
  <2>1. CASE Ended
    BY <1>1, <2>1 DEF Ended
  <2>2. CASE ~Ended
    BY <1>2, <2>2, BeginKeeps, OpenForInsertKeeps, OpenForReadKeeps, OpenFailsKeeps,
       LockTableKeeps, LockFailsKeeps, PrepareInsertKeeps, FlushInsertKeeps,
       DeleteFailsKeeps, CreateTempKeeps, FlushTempKeeps, RenameTempKeeps,
       RenameFailsKeeps, RemoveTempKeeps, LoadTableKeeps, ReadRowAtOffsetKeeps,
       CloseKeeps, CrashKeeps DEF Next, Statement
  <2> QED  BY <2>1, <2>2
<1> QED  BY <1>1, <1>2

(***************************************************************************)
(* What each process holds, has locked and is about to write fits the      *)
(* files, for any number of processes that share a table file; of an inode *)
(* that two DELETEs write at once only its shape is known (storage.c).     *)
(***************************************************************************)
THEOREM StorageCorrect == Spec => []StorageInv
<1>1. Init => StorageInv
  BY StorageInvBegins
<1>2. StorageInv /\ [Next]_vars => StorageInv'
  BY StorageInvStep
<1> QED  BY <1>1, <1>2, PTL DEF Spec

(***************************************************************************)
(* A row read at an offset is the row that was loaded from there, until a  *)
(* DELETE replaces the file (storage.c:1189-1248), for any number of       *)
(* processes, calls, crashes and failures, unless two DELETEs write it.    *)
(***************************************************************************)
THEOREM OffsetsFindTheirRowsHolds == Spec => []OffsetsFindTheirRows
<1>1. StorageInv => OffsetsFindTheirRows
  BY DEF StorageInv, ProcessInv, FoundInv, OffsetsFindTheirRows
<1> QED  BY <1>1, StorageCorrect, PTL

(***************************************************************************)
(* Two DELETEs that have data/<table>.tmp open at once started from two    *)
(* versions of the table (storage.c:823-895), for any number of processes. *)
(***************************************************************************)
THEOREM DeletesMeetAcrossVersionsHolds == Spec => []DeletesMeetAcrossVersions
<1>1. StorageInv => DeletesMeetAcrossVersions
  BY DeletingHolds DEF StorageInv, ExclusionInv, DeletesMeetAcrossVersions
<1> QED  BY <1>1, StorageCorrect, PTL

-------------------------------------------------------------------------------
\* Every step is one of TableFile, or none

\* The operators TableFile uses are the ones Storage uses.
LEMMA SameOperators ==
  ASSUME NEW rows, NEW gone
  PROVE  /\ History!Ids(rows) = Ids(rows) /\ History!Without(rows, gone) = Without(rows, gone)
         /\ History!Front(rows) = Front(rows) /\ History!Last(rows) = Last(rows)
<1>1. History!Ids(rows) = Ids(rows)
  BY DEF History!Ids, Ids
<1>2. History!Without(rows, gone) = Without(rows, gone)
  BY DEF History!Without, Without
<1>3. History!Front(rows) = Front(rows) /\ History!Last(rows) = Last(rows)
  BY DEF History!Front, Front, History!Last, Last
<1> QED  BY <1>1, <1>2, <1>3

LEMMA FrontOfAppended ==
  ASSUME NEW R, NEW rows \in Seq(R), NEW r \in R
  PROVE  LET new == Append(rows, r)
         IN Len(new) = Len(rows) + 1 /\ Front(new) = rows /\ Last(new) = r
<1> DEFINE new == Append(rows, r)
<1>1. new \in Seq(R) /\ Len(new) = Len(rows) + 1 /\ Len(rows) \in Nat
  BY AppendProperties
<1>2. Last(new) = r
  BY <1>1, AppendProperties DEF Last
<1>3. Front(new) = rows
  BY <1>1 DEF Front
<1> QED  BY <1>1, <1>2, <1>3

\* What TableFile sees.
Seen == <<Versions, Collided, full>>

LEMMA VersionsOfPath ==
  ASSUME TypeInv
  PROVE  /\ Versions \in Seq(Table) /\ Len(Versions) = Len(path) /\ Len(path) \in Nat
         /\ \A k \in 1..Len(path) : Versions[k] = file[path[k]] /\ path[k] \in Named
         /\ \A i \in Named : \E k \in 1..Len(path) : path[k] = i
<1>1. Len(path) \in Nat /\ \A k \in 1..Len(path) : path[k] \in Named /\ file[path[k]] \in Table
  <2>1. Len(path) \in Nat
    BY LengthIsNat DEF TypeInv
  <2>2. \A k \in 1..Len(path) : path[k] \in Named
    BY DEF Named
  <2>3. \A i \in Named : file[i] \in Table
    BY NamedInodes, InodeIsTable
  <2> QED  BY <2>1, <2>2, <2>3
<1>2. Versions \in [1..Len(path) -> Table]
  BY <1>1 DEF Versions
<1>3. Versions \in Seq(Table) /\ Len(Versions) = Len(path)
  BY <1>1, <1>2, SeqDef, LenProperties
<1> QED  BY <1>1, <1>3 DEF Versions, Named

\* It does not see what happens to inodes the path does not name.
LEMMA SameVersions ==
  ASSUME StorageInv, path' = path, full' = full,
         \A i \in Named : file'[i] = file[i] /\ (i \in shared' <=> i \in shared)
  PROVE  UNCHANGED Seen
<1>1. \A k \in 1..Len(path) : path[k] \in Named
  BY DEF Named
<1>2. Versions' = Versions
  BY <1>1 DEF Versions
<1>3. Collided' = Collided
  BY <1>1 DEF Collided
<1> QED  BY <1>2, <1>3 DEF Seen

\* It sees one version change when a file is written.
LEMMA OneVersion ==
  ASSUME StorageInv, NEW v \in 1..Len(path), path' = path, shared' = shared,
         \A i \in Named : i # path[v] => file'[i] = file[i]
  PROVE  /\ Versions' = [Versions EXCEPT ![v] = file'[path[v]]]
         /\ Versions'[v] = file'[path[v]] /\ Collided' = Collided
<1>1. \A k \in 1..Len(path) : path[k] \in Named /\ (path[k] = path[v] => k = v)
  BY DEF Named, StorageInv, TypeInv
<1>2. \A k \in 1..Len(path) : file'[path[k]] = IF k = v THEN file'[path[v]] ELSE file[path[k]]
  BY <1>1
<1>3. Versions' = [k \in 1..Len(path) |-> file'[path[k]]]
  BY DEF Versions
<1>4. Versions' = [Versions EXCEPT ![v] = file'[path[v]]]
  BY <1>2, <1>3 DEF Versions
<1>5. Collided' = Collided
  BY DEF Collided
<1> QED  BY <1>3, <1>4, <1>5

\* It sees another version when the path names another inode.
LEMMA AnotherVersion ==
  ASSUME StorageInv, NEW i \in Nat \ Named, i \in 1..Len(file'), Len(file) <= Len(file'),
         Len(file') \in Nat, path' = Append(path, i), shared' = shared, file'[i] \in Table,
         \A j \in Named : file'[j] = file[j]
  PROVE  /\ Versions' = Append(Versions, file'[i])
         /\ Collided' = IF i \in shared THEN Collided \cup {Len(Versions')} ELSE Collided
         /\ Versions' # <<>> /\ Front(Versions') = Versions
<1> DEFINE n == Len(path)
<1>1. /\ Len(path') = n + 1 /\ path'[n + 1] = i /\ n \in Nat
      /\ \A k \in 1..n : path'[k] = path[k] /\ file'[path[k]] = Versions[k]
      /\ Versions \in Seq(Table) /\ Len(Versions) = n
  BY NextName, VersionsOfPath DEF StorageInv
<1>2. \A k \in 1..(n + 1) : k = n + 1 \/ k \in 1..n
  BY <1>1
<1>3. Versions' = [k \in 1..(n + 1) |-> IF k = n + 1 THEN file'[i] ELSE Versions[k]]
  <2>1. Versions' = [k \in 1..(n + 1) |-> file'[path'[k]]]
    BY <1>1 DEF Versions
  <2>2. \A k \in 1..(n + 1) : file'[path'[k]] = IF k = n + 1 THEN file'[i] ELSE Versions[k]
    BY <1>1, <1>2
  <2> HIDE DEF n
  <2> QED  BY <2>1, <2>2
<1>4. Versions' = Append(Versions, file'[i])
  BY <1>1, <1>3
<1>5. /\ Len(Versions') = n + 1 /\ Versions' # <<>> /\ Front(Versions') = Versions
  BY <1>1, <1>4, FrontOfAppended
<1>6. Collided' = IF i \in shared THEN Collided \cup {n + 1} ELSE Collided
  <2>1. Collided' = { k \in 1..(n + 1) : path'[k] \in shared }
    BY <1>1 DEF Collided
  <2> HIDE DEF n
  <2> QED  BY <1>1, <1>2, <2>1 DEF Collided, n
<1> QED  BY <1>4, <1>5, <1>6

LEMMA OpenForInsertIsCreate ==
  ASSUME StorageInv, NEW p \in Proc, OpenForInsert(p)
  PROVE  History!Create \/ UNCHANGED Seen
<1>1. full' = full /\ shared' = shared
  BY DEF OpenForInsert, counters
<1>2. CASE UNCHANGED <<file, path>>
  BY <1>1, <1>2, SameVersions
<1>3. CASE path = <<>> /\ file' = Append(file, Empty) /\ path' = <<Len(file')>>
  <2>1. /\ Len(file') = Len(file) + 1 /\ file'[Len(file')] = Empty /\ Len(file) \in Nat
        /\ Named = {} /\ shared = {} /\ Empty \in Table
    BY <1>3, NewFile, EmptyIsTable DEF StorageInv, TypeInv, Named
  <2>2. path' = Append(path, Len(file'))
    BY <1>3
  <2>3. Versions' = Append(Versions, Empty) /\ Collided' = Collided
    BY <1>1, <2>1, <2>2, AnotherVersion
  <2>4. Versions = <<>>
    BY <1>3, VersionsOfPath DEF StorageInv
  <2> QED  BY <1>1, <2>3, <2>4 DEF History!Create, History!Replace
<1> QED  BY <1>2, <1>3 DEF OpenForInsert

LEMMA FlushInsertIsInsertRow ==
  ASSUME StorageInv, NEW p \in Proc, FlushInsert(p)
  PROVE  \/ \E v \in History!Version : History!InsertRow(v)
         \/ \E v \in Collided : History!Overwrite(v)
         \/ History!DiskFills
<1>1. at[p] = "flush" /\ Kind(p) = "insert" /\ path' = path /\ shared' = shared
  BY DEF FlushInsert
<1>2. CASE full' = full + 1 /\ file' = file
  <2>1. Versions' = Versions /\ Collided' = Collided
    BY <1>1, <1>2 DEF Versions, Collided
  <2> QED  BY <1>2, <2>1 DEF History!DiskFills
<1>3. CASE Written(p) /\ full' = full
  <2>1. /\ fd[p] \in Named /\ Named \subseteq 1..Len(file)
        /\ \A j \in Named : j # fd[p] => file'[j] = file[j]
    BY <1>1, <1>3, WrittenRow, NamedInodes DEF StorageInv
  <2>2. PICK v \in 1..Len(path) : path[v] = fd[p]
    BY <2>1, VersionsOfPath DEF StorageInv
  <2> DEFINE old == file[fd[p]]
             new == file'[fd[p]]
             r == buffer[p].rows[1]
  <2>3. /\ Versions' = [Versions EXCEPT ![v] = new] /\ Versions'[v] = new
        /\ Versions[v] = old /\ Collided' = Collided /\ v \in History!Version
    BY <1>1, <2>1, <2>2, OneVersion, VersionsOfPath DEF StorageInv, History!Version
  <2>4. CASE fd[p] \in shared
    <3>1. v \in Collided
      BY <2>2, <2>4 DEF Collided
    <3>2. History!Overwrite(v)
      BY <1>3, <2>3 DEF History!Overwrite
    <3> QED  BY <3>1, <3>2
  <2>5. CASE fd[p] \notin shared
    <3>1. /\ new.columns \in Column /\ old.columns \in {"none", new.columns}
          /\ new.rows = Append(old.rows, r) /\ r \in Row
          /\ r.id \notin Ids(old.rows) \/ MaxId \in Ids(old.rows)
      BY <1>1, <1>3, <2>5, WrittenRow
    <3>2. old \in Table /\ old.rows \in Seq(Row)
      BY <2>1, InodeIsTable DEF StorageInv
    <3> HIDE DEF new, r, old
    <3>3. new.columns # "blank"
      BY <3>1, StorageAssumption
    <3>4. old = Empty \/ new.columns = old.columns
      BY <3>1, <3>2 DEF Table, Contents, Empty
    <3>5. /\ Len(new.rows) = Len(old.rows) + 1 /\ Front(new.rows) = old.rows
          /\ Last(new.rows).id \notin Ids(old.rows) \/ MaxId \in Ids(old.rows)
      BY <3>1, <3>2, FrontOfAppended
    <3>6. History!InsertRow(v)
      <4> HIDE DEF Written
      <4> QED  BY <1>3, <2>3, <3>3, <3>4, <3>5, SameOperators DEF History!InsertRow
    <3> QED  BY <2>3, <3>6
  <2> QED  BY <2>4, <2>5
<1> QED  BY <1>2, <1>3 DEF FlushInsert, Written

LEMMA FlushTempIsOverwrite ==
  ASSUME StorageInv, NEW p \in Proc, FlushTemp(p)
  PROVE  \/ \E v \in Collided : History!Overwrite(v)
         \/ History!DiskFills
         \/ UNCHANGED Seen
<1>1. /\ path' = path /\ shared' = shared /\ Deleting(p)
  BY DEF FlushTemp, Deleting
<1>2. CASE full' = full + 1 /\ file' = file
  <2>1. Versions' = Versions /\ Collided' = Collided
    BY <1>1, <1>2 DEF Versions, Collided
  <2> QED  BY <1>2, <2>1 DEF History!DiskFills
<1>3. CASE full' = full /\ \E f \in Overwritten(file[draft[p]], buffer[p]) :
                             file' = [file EXCEPT ![draft[p]] = f]
  <2>1. \A j \in Named : j # draft[p] => file'[j] = file[j]
    BY <1>3, NamedInodes DEF StorageInv, TypeInv
  <2>2. CASE draft[p] \notin Named
    BY <1>1, <1>3, <2>1, <2>2, SameVersions
  <2>3. CASE draft[p] \in Named
    <3>1. PICK v \in 1..Len(path) : path[v] = draft[p]
      BY <2>3, VersionsOfPath DEF StorageInv
    <3>2. v \in Collided
      BY <1>1, <2>3, <3>1, DeletingHolds DEF Collided
    <3>3. Versions' = [Versions EXCEPT ![v] = Versions'[v]] /\ Collided' = Collided
      BY <1>1, <2>1, <3>1, OneVersion
    <3> QED  BY <1>3, <3>2, <3>3 DEF History!Overwrite
  <2> QED  BY <2>2, <2>3
<1> QED  BY <1>2, <1>3 DEF FlushTemp

LEMMA RenameTempIsDeleteRows ==
  ASSUME StorageInv, NEW p \in Proc, RenameTemp(p)
  PROVE  \/ \E v \in History!Version : History!DeleteRows(v)
         \/ History!LoseTable \/ History!Collide \/ History!DeleteOverwritten
<1>1. /\ at[p] = "rename" /\ Deleting(p) /\ temp \in 1..Len(file) /\ temp \notin Named
      /\ temp \in shared \/ (temp = draft[p] /\ draft[p] \notin shared)
  BY RenamedFile
<1>2. /\ path' = Append(path, temp) /\ UNCHANGED <<file, shared, full>>
  BY DEF RenameTemp, counters
<1>3. /\ Versions' = Append(Versions, file[temp])
      /\ Collided' = IF temp \in shared THEN Collided \cup {Len(Versions')} ELSE Collided
      /\ Versions' # <<>> /\ Front(Versions') = Versions
  <2>1. temp \in Nat \ Named /\ Len(file) \in Nat /\ file[temp] \in Table
    <3>1. TypeInv
      BY DEF StorageInv
    <3> QED  BY <1>1, <3>1, NamedInodes, InodeIsTable
  <2> QED  BY <1>1, <1>2, <2>1, AnotherVersion
<1>4. fd[p] \in Named /\ file[fd[p]] \in Table
  BY <1>1, DeletingHolds, NamedInodes, InodeIsTable DEF StorageInv
<1>5. PICK v \in 1..Len(path) : path[v] = fd[p]
  BY <1>4, VersionsOfPath DEF StorageInv
<1>6. /\ v \in History!Version /\ Versions[v] = file[fd[p]] /\ Len(Versions) = Len(path)
      /\ Versions # <<>>
  BY <1>5, VersionsOfPath DEF StorageInv, History!Version
<1>7. History!AnyTable
  BY <1>3, SameOperators DEF History!AnyTable
<1>8. CASE temp \in shared
  <2>1. Len(Versions) >= 2
    BY <1>6, <1>8 DEF StorageInv, TypeInv
  <2> QED  BY <1>2, <1>3, <1>7, <1>8, <2>1 DEF History!Collide
<1>9. CASE temp \notin shared /\ fd[p] \in shared
  <2>1. v \in Collided
    BY <1>5, <1>9 DEF Collided
  <2> QED  BY <1>2, <1>3, <1>7, <1>9, <2>1 DEF History!DeleteOverwritten
<1>10. CASE temp \notin shared /\ fd[p] \notin shared
  <2>1. temp = draft[p] /\ DeleteInv(p) /\ Collided' = Collided
    BY <1>1, <1>3, <1>10 DEF StorageInv, ProcessInv
  <2>2. History!Replace(file[temp])
    BY <1>2, <1>3, <2>1 DEF History!Replace
  <2>3. CASE file[temp] = buffer[p]
    <3> DEFINE f == file[fd[p]]
               gone == Matching(f.rows, call[p].where)
    <3>1. file[temp] = [columns |-> IF f.columns = "none" THEN "blank" ELSE f.columns,
                        rows |-> Without(f.rows, gone)]
      BY <1>1, <1>10, <2>1, <2>3 DEF DeleteInv, Copy
    <3>2. gone \in SUBSET Ids(f.rows)
      BY DEF Matching
    <3>3. f.columns = "none" <=> f = Empty
      <4> HIDE DEF f
      <4> QED  BY <1>4 DEF Table, Contents, Empty, f
    <3> HIDE DEF gone
    <3>4. file[temp] = [columns |-> IF f = Empty THEN "blank" ELSE f.columns,
                        rows |-> Without(f.rows, gone)]
      <4> HIDE DEF f
      <4> QED  BY <3>1, <3>3
    <3>5. History!DeleteRows(v)
      <4> HIDE DEF History!Replace
      <4> QED  BY <1>6, <2>2, <3>2, <3>4, SameOperators DEF History!DeleteRows
    <3> QED  BY <1>6, <3>5
  <2>4. CASE file[temp] = Empty /\ full > 0
    BY <1>6, <2>2, <2>4 DEF History!LoseTable
  <2> QED  BY <1>1, <1>10, <2>1, <2>3, <2>4 DEF DeleteInv
<1> QED  BY <1>1, <1>8, <1>9, <1>10

LEMMA CreateTempStutters ==
  ASSUME StorageInv, NEW p \in Proc, CreateTemp(p)
  PROVE  UNCHANGED Seen
<1> DEFINE inode == IF temp = 0 THEN Len(file) + 1 ELSE temp
           others == { q \in Proc \ {p} : Deleting(q) }
<1>1. /\ file' = IF temp = 0 THEN Append(file, Empty) ELSE [file EXCEPT ![temp] = Empty]
      /\ shared' = IF others = {} THEN shared \ {inode}
                   ELSE shared \cup {inode} \cup { draft[q] : q \in others }
      /\ path' = path /\ full' = full
  BY DEF CreateTemp, counters
<1>2. Named \subseteq 1..Len(file) /\ inode \notin Named /\ Len(file) \in Nat
  <2>1. TypeInv
    BY DEF StorageInv
  <2>2. temp \in 0..Len(file) /\ temp \notin Named
    BY <2>1 DEF TypeInv
  <2> QED  BY <2>1, <2>2, NamedInodes
<1>3. \A i \in Named : file'[i] = file[i]
  <2>1. CASE temp = 0
    BY <1>1, <1>2, <2>1, NewFile, EmptyIsTable DEF StorageInv
  <2>2. CASE temp # 0
    BY <1>1, <1>2, <2>2, WrittenFile, EmptyIsTable DEF StorageInv, TypeInv
  <2> QED  BY <2>1, <2>2
<1>4. \A q \in others : draft[q] \in shared \/ draft[q] \notin Named
  BY DeletingHolds
<1>5. \A i \in Named : i \in shared' <=> i \in shared
  <2> HIDE DEF inode, others
  <2> QED  BY <1>1, <1>2, <1>4
<1> QED  BY <1>1, <1>3, <1>5, SameVersions

\* What TableFile does not see.
LEMMA OtherStepsStutter ==
  ASSUME StorageInv, NEW p \in Proc,
         \/ \E s \in Statement : Begin(p, s)
         \/ OpenForRead(p) \/ OpenFails(p) \/ LockTable(p) \/ LockFails(p)
         \/ PrepareInsert(p) \/ DeleteFails(p) \/ RenameFails(p) \/ RemoveTemp(p)
         \/ LoadTable(p) \/ ReadRowAtOffset(p) \/ Close(p) \/ Crash(p)
  PROVE  UNCHANGED Seen
<1>1. UNCHANGED <<file, path, shared, full>>
  BY DEF Begin, OpenForRead, OpenFails, LockTable, LockFails, PrepareInsert, DeleteFails,
         RenameFails, RemoveTemp, LoadTable, ReadRowAtOffset, Close, Crash, Fault, counters,
         files
<1> QED  BY <1>1, SameVersions

LEMMA HistoryStep ==
  ASSUME StorageInv, [Next]_vars
  PROVE  History!Next \/ UNCHANGED Seen
<1>1. CASE UNCHANGED vars
  BY <1>1, SameVersions DEF vars, files, counters
<1>2. ASSUME NEW p \in Proc, OpenForInsert(p)
      PROVE  History!Next \/ UNCHANGED Seen
  BY <1>2, OpenForInsertIsCreate DEF History!Next
<1>3. ASSUME NEW p \in Proc, FlushInsert(p)
      PROVE  History!Next
  BY <1>3, FlushInsertIsInsertRow DEF History!Next
<1>4. ASSUME NEW p \in Proc, RenameTemp(p)
      PROVE  History!Next
  BY <1>4, RenameTempIsDeleteRows DEF History!Next
<1>5. ASSUME NEW p \in Proc, FlushTemp(p)
      PROVE  History!Next \/ UNCHANGED Seen
  BY <1>5, FlushTempIsOverwrite DEF History!Next
<1>6. CASE Ended
  BY <1>1, <1>6 DEF Ended
<1> QED  BY <1>1, <1>2, <1>3, <1>4, <1>5, <1>6, OtherStepsStutter, CreateTempStutters
         DEF Next, Statement

(***************************************************************************)
(* For any number of processes, calls, crashes and failures, the versions  *)
(* of data/<table>.csv are what TableFile allows: whole INSERTs with new   *)
(* ids as long as LLONG_MAX is not taken, and whole DELETEs, and nothing   *)
(* lost but to a full disk; and of the versions two DELETEs write at once  *)
(* nothing but that they stay apart from the others (storage.c:580-1119).  *)
(***************************************************************************)
THEOREM FileHistoryHolds == Spec => FileHistory
<1>1. Init => History!Init
  <2> SUFFICES ASSUME Init PROVE History!Init
    OBVIOUS
  <2>1. Versions = <<>> /\ Collided = {}
    BY DEF Init, Versions, Collided
  <2> QED  BY <2>1 DEF Init, History!Init
<1>2. StorageInv /\ [Next]_vars => [History!Next]_Seen
  BY HistoryStep
<1> QED  BY <1>1, <1>2, StorageCorrect, PTL DEF Spec, FileHistory, History!Spec, Seen
===============================================================================
