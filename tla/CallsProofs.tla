---------------------------- MODULE CallsProofs ----------------------------
(***************************************************************************)
(* Proofs about the calls of the library that share something with other   *)
(* calls: modules TemporaryFiles and JvmCalls, whose temporary files have  *)
(* a clock reading for a name, and PythonEngine, whose callbacks share a   *)
(* cell for their errors.  For every set of calls and threads.             *)
(***************************************************************************)
EXTENDS TemporaryFiles, JvmCalls, PythonEngine, Induction

(***************************************************************************)
(* The invariant of TemporaryFiles.  Whatever name a file has had is the   *)
(* name of the call that created it; only calls that share a name at a     *)
(* time can have one file open; a file that is not shared holds what its   *)
(* call has written, whoever made it.                                      *)
(***************************************************************************)
TransferPlaces == {"ready", "connect", "create", "write", "read", "remove", "put",
                   "ok", "failed"}
Parts == (Calls \X Nat) \cup {Hole}

FilesType ==
  /\ request \in [Calls -> Requests] /\ at \in [Calls -> TransferPlaces]
  /\ name \in [Calls -> Paths \cup {NoName}] /\ copied \in [Calls -> Nat]
  /\ got \in [Calls -> Seq(Parts)] /\ dir \in [Paths -> Calls \cup {NoFile}]
  /\ file \in [Calls -> Seq(Parts)] /\ open \in [Calls -> Calls \cup {NoFile}]
  /\ shared \subseteq Calls

Unopened == {c \in Calls : at[c] \in {"ready", "connect", "create"}}

NamesStay ==
  /\ \A c \in Unopened : open[c] = NoFile /\ copied[c] = 0
  /\ \A c \in Using : name[c] \in Paths /\ (c \notin Unopened => open[c] # NoFile)
  /\ \A p \in Paths : dir[p] # NoFile => name[dir[p]] = p /\ open[dir[p]] = dir[p]
  /\ \A c \in Calls : open[c] # NoFile =>
       name[c] \in Paths /\ name[open[c]] = name[c] /\ open[open[c]] = open[c]

SharedIsSeen == \A c, d \in Using : c # d /\ name[c] = name[d] => c \in shared

Owns(c) ==
  /\ copied[c] <= Size(c) /\ (at[c] = "read" => copied[c] = Size(c))
  /\ at[c] \in {"write", "read", "remove"} => dir[name[c]] = open[c]
  /\ at[c] \in {"write", "read"} =>
       /\ Len(file[open[c]]) = copied[c]
       /\ \A i \in 1..copied[c] : file[open[c]][i] = <<c, i>>
  /\ at[c] \in {"remove", "put", "ok"} => got[c] = Source(c)

FilesInv == /\ FilesType /\ NamesStay /\ SharedIsSeen
            /\ (\A c \in Calls \ shared : Owns(c)) /\ LeftoversAreFailures

-----------------------------------------------------------------------------
(* Transfers                                                               *)

FilesSpec == FilesInit /\ [][FilesNext]_filesVars

LEMMA RequestFacts ==
  ASSUME FilesType, NEW c \in Calls
  PROVE  /\ request[c].kind \in Kinds /\ request[c].format \in Formats
         /\ Size(c) \in Nat \ {0}
         /\ \A stamp \in Stamps : Path(c, stamp) \in Paths
<1>1. request[c] \in [kind: Kinds, format: Formats, size: 1..MaxParts]
  BY RequestsAssumption DEF FilesType
<1>2. request[c].kind \in Kinds /\ request[c].format \in Formats
  BY <1>1
<1>3. Size(c) \in Nat \ {0}
  <2>1. Size(c) \in 1..MaxParts
    BY <1>1 DEF Size
  <2> QED
    BY <2>1, RequestsAssumption
<1>4. Prefix(request[c].kind) \in {"rdp_ft_dl_", "rdp_os_dl_"}
  BY DEF Prefix
<1> QED
  BY <1>2, <1>3, <1>4 DEF Path, Paths

\* A write at the end of what is there adds its part; any write leaves parts.
Appended(result, content, i, part) ==
  /\ Len(result) = i /\ result[i] = part
  /\ \A j \in 1..Len(content) : result[j] = content[j]
LEMMA WriteFacts ==
  ASSUME NEW content \in Seq(Parts), NEW i \in Nat \ {0}, NEW part \in Parts
  PROVE  /\ WrittenAt(content, i, part) \in Seq(Parts)
         /\ i = Len(content) + 1 => Appended(WrittenAt(content, i, part), content, i, part)
<1> DEFINE n == IF i > Len(content) THEN i ELSE Len(content)
<1>1. n \in Nat /\ Hole \in Parts
  BY DEF Parts
<1>2. \A j \in 1..Len(content) : content[j] \in Parts
  OBVIOUS
<1>3. WrittenAt(content, i, part) \in [1..n -> Parts]
  BY <1>1, <1>2 DEF WrittenAt
<1>4. WrittenAt(content, i, part) \in Seq(Parts) /\ Len(WrittenAt(content, i, part)) = n
  BY <1>1, <1>3, SeqDef, LenProperties
<1> QED
  BY <1>4 DEF WrittenAt, Appended

LEMMA FilesTypeStep ==
  ASSUME FilesType, NamesStay, [FilesNext]_filesVars
  PROVE  FilesType'
<1> USE DEF TransferPlaces
<1>1. CASE UNCHANGED filesVars
  BY <1>1 DEF FilesType, filesVars
<1>2. ASSUME NEW c \in Calls, Fail(c)
      PROVE  FilesType'
  BY <1>2 DEF FilesType, Fail
<1>3. ASSUME NEW c \in Calls, ChooseName(c)
      PROVE  FilesType'
  <2>1. PICK stamp \in Stamps :
          /\ name' = [name EXCEPT ![c] = Path(c, stamp)]
          /\ LET twins == {d \in Using : name[d] = Path(c, stamp)}
             IN  shared' = shared \cup IF twins = {} THEN {} ELSE {c} \cup twins
    BY <1>3 DEF ChooseName
  <2>2. name' \in [Calls -> Paths \cup {NoName}] /\ shared' \subseteq Calls
    BY <2>1, RequestFacts DEF FilesType, Using
  <2>3. at' \in [Calls -> TransferPlaces]
    BY <1>3 DEF ChooseName, FilesType
  <2> QED
    BY <1>3, <2>2, <2>3 DEF ChooseName, FilesType
<1>4. ASSUME NEW c \in Calls, Connect(c) \/ Written(c) \/ PutObject(c)
      PROVE  FilesType'
  BY <1>4 DEF FilesType, Connect, Written, PutObject
<1>5. ASSUME NEW c \in Calls, CreateFile(c)
      PROVE  FilesType'
  <2> DEFINE f == IF dir[name[c]] = NoFile THEN c ELSE dir[name[c]]
  <2>1. name[c] \in Paths
    BY <1>5 DEF CreateFile, NamesStay, Using
  <2>2. f \in Calls
    BY <2>1 DEF FilesType
  <2>3. /\ dir' = [dir EXCEPT ![name[c]] = f] /\ open' = [open EXCEPT ![c] = f]
        /\ file' = [file EXCEPT ![f] = <<>>] /\ at' = [at EXCEPT ![c] = "write"]
    BY <1>5 DEF CreateFile, Truncated
  <2> HIDE DEF f
  <2>4. <<>> \in Seq(Parts)
    OBVIOUS
  <2>5. dir' \in [Paths -> Calls \cup {NoFile}] /\ open' \in [Calls -> Calls \cup {NoFile}]
    BY <2>1, <2>2, <2>3 DEF FilesType
  <2>6. file' \in [Calls -> Seq(Parts)] /\ at' \in [Calls -> TransferPlaces]
    BY <2>2, <2>3, <2>4 DEF FilesType
  <2> QED
    BY <1>5, <2>5, <2>6 DEF CreateFile, FilesType
<1>6. ASSUME NEW c \in Calls, WritePart(c)
      PROVE  FilesType'
  <2> DEFINE i == copied[c] + 1
  <2>1. open[c] \in Calls
    BY <1>6 DEF WritePart, NamesStay, Using, Unopened, FilesType
  <2>2. i \in Nat \ {0} /\ Source(c)[i] \in Parts
    <3>1. i \in Nat \ {0} /\ i \in 1..Size(c)
      BY <1>6, RequestFacts DEF WritePart, FilesType
    <3> QED
      BY <3>1 DEF Source, Parts
  <2>3. WrittenAt(file[open[c]], i, Source(c)[i]) \in Seq(Parts)
    BY <2>1, <2>2, WriteFacts DEF FilesType
  <2>4. file' = [file EXCEPT ![open[c]] = WrittenAt(@, i, Source(c)[i])]
        /\ copied' = [copied EXCEPT ![c] = i]
    BY <1>6 DEF WritePart
  <2>5. file' \in [Calls -> Seq(Parts)] /\ copied' \in [Calls -> Nat]
    BY <2>1, <2>2, <2>3, <2>4 DEF FilesType
  <2> QED
    BY <1>6, <2>5 DEF WritePart, FilesType
<1>7. ASSUME NEW c \in Calls, ReadBack(c)
      PROVE  FilesType'
  <2>1. dir[name[c]] \in Calls
    BY <1>7 DEF ReadBack, NamesStay, Using, FilesType
  <2>2. file[dir[name[c]]] \in Seq(Parts)
    BY <2>1 DEF FilesType
  <2> QED
    BY <1>7, <2>2 DEF ReadBack, FilesType
<1>8. ASSUME NEW c \in Calls, RemoveFile(c)
      PROVE  FilesType'
  <2>1. dir' \in [Paths -> Calls \cup {NoFile}]
    BY <1>8 DEF RemoveFile, Without, FilesType
  <2>2. at' \in [Calls -> TransferPlaces]
    BY <1>8 DEF RemoveFile, AfterRemove, FilesType
  <2> QED
    BY <1>8, <2>1, <2>2 DEF RemoveFile, FilesType
<1>9. CASE Crash
  <2>1. at' \in [Calls -> TransferPlaces]
    BY <1>9 DEF Crash, FilesType
  <2> QED
    BY <1>9, <2>1 DEF Crash, FilesType
<1> QED
  BY <1>1, <1>2, <1>3, <1>4, <1>5, <1>6, <1>7, <1>8, <1>9
     DEF FilesNext, Refuse, ConnectFails, CreateFails, WriteFails, ReadFails, PutFails

\* A step of c that neither chooses a name nor makes or removes a file.
LEMMA QuietNames ==
  ASSUME FilesType, NamesStay, SharedIsSeen, UNCHANGED <<name, dir, open, shared>>,
         Using' \subseteq Using, Unopened' \subseteq Unopened,
         (Using \ Unopened)' \subseteq Using \ Unopened,
         \A c \in Unopened' : copied'[c] = copied[c]
  PROVE  NamesStay' /\ SharedIsSeen'
<1>1. NamesStay'
  BY DEF NamesStay
<1>2. SharedIsSeen'
  BY DEF SharedIsSeen
<1> QED
  BY <1>1, <1>2

LEMMA QuietStep ==
  ASSUME FilesType, NamesStay, SharedIsSeen, NEW c \in Calls,
         \/ Fail(c) \/ Connect(c) \/ WritePart(c) \/ Written(c)
         \/ ReadBack(c) \/ PutObject(c)
  PROVE  NamesStay' /\ SharedIsSeen'
<1>1. at \in [Calls -> TransferPlaces] /\ copied \in [Calls -> Nat]
  BY DEF FilesType
<1>2. UNCHANGED <<name, dir, open, shared>>
  BY DEF Fail, Connect, WritePart, Written, ReadBack, PutObject
<1>3. \A d \in Calls \ {c} : at'[d] = at[d] /\ copied'[d] = copied[d]
  BY <1>1 DEF Fail, Connect, WritePart, Written, ReadBack, PutObject
<1>4. \/ at'[c] \in {"failed", "ok"}
      \/ at[c] = "connect" /\ at'[c] = "create" /\ copied'[c] = copied[c]
      \/ at[c] = "write" /\ at'[c] \in {"write", "read"}
      \/ at[c] = "read" /\ at'[c] = "remove"
  BY <1>1 DEF Fail, Connect, WritePart, Written, ReadBack, PutObject
<1>5. Using' \subseteq Using /\ Unopened' \subseteq Unopened
  BY <1>3, <1>4 DEF Using, Unopened
<1>6. (Using \ Unopened)' \subseteq Using \ Unopened
  BY <1>3, <1>4 DEF Using, Unopened
<1>7. \A d \in Unopened' : copied'[d] = copied[d]
  BY <1>3, <1>4 DEF Unopened
<1> QED
  BY <1>2, <1>5, <1>6, <1>7, QuietNames

LEMMA ChooseStep ==
  ASSUME FilesType, NamesStay, SharedIsSeen, NEW c \in Calls, ChooseName(c)
  PROVE  NamesStay' /\ SharedIsSeen'
<1>1. PICK stamp \in Stamps :
        /\ name' = [name EXCEPT ![c] = Path(c, stamp)]
        /\ LET twins == {d \in Using : name[d] = Path(c, stamp)}
           IN  shared' = shared \cup IF twins = {} THEN {} ELSE {c} \cup twins
  BY DEF ChooseName
<1>2. Path(c, stamp) \in Paths
  BY RequestFacts
<1>3. /\ name'[c] = Path(c, stamp) /\ \A d \in Calls \ {c} : name'[d] = name[d]
      /\ at[c] = "ready" /\ at'[c] \in {"create", "connect"}
      /\ \A d \in Calls \ {c} : at'[d] = at[d]
      /\ UNCHANGED <<copied, dir, open>>
  BY <1>1 DEF ChooseName, FilesType
<1>4. c \in Unopened /\ c \notin Using /\ open[c] = NoFile
  BY <1>3 DEF Unopened, Using, NamesStay
<1>5. Using' = Using \cup {c} /\ Unopened' = Unopened
  BY <1>3 DEF Using, Unopened
<1>6. NamesStay'
  <2>1. \A d \in Unopened' : open'[d] = NoFile /\ copied'[d] = 0
    BY <1>3, <1>5 DEF NamesStay
  <2>2. \A d \in Using' : name'[d] \in Paths /\ (d \notin Unopened' => open'[d] # NoFile)
    BY <1>2, <1>3, <1>4, <1>5 DEF NamesStay, Using
  <2>3. \A p \in Paths : dir'[p] # NoFile => name'[dir'[p]] = p /\ open'[dir'[p]] = dir'[p]
    <3> SUFFICES ASSUME NEW p \in Paths, dir[p] # NoFile
                 PROVE  name'[dir[p]] = p /\ open[dir[p]] = dir[p]
      BY <1>3
    <3>1. dir[p] \in Calls /\ name[dir[p]] = p /\ open[dir[p]] = dir[p]
      BY DEF FilesType, NamesStay
    <3>2. dir[p] # c
      BY <1>4, <3>1
    <3> QED
      BY <1>3, <3>1, <3>2
  <2>4. \A d \in Calls : open'[d] # NoFile =>
          name'[d] \in Paths /\ name'[open'[d]] = name'[d] /\ open'[open'[d]] = open'[d]
    <3> SUFFICES ASSUME NEW d \in Calls, open[d] # NoFile
                 PROVE  name'[d] \in Paths /\ name'[open[d]] = name'[d]
                        /\ open[open[d]] = open[d]
      BY <1>3
    <3>1. /\ open[d] \in Calls /\ open[open[d]] = open[d]
          /\ name[d] \in Paths /\ name[open[d]] = name[d]
      BY DEF FilesType, NamesStay
    <3>2. d # c /\ open[d] # c
      BY <1>4, <3>1
    <3> QED
      BY <1>3, <3>1, <3>2
  <2> QED
    BY <2>1, <2>2, <2>3, <2>4 DEF NamesStay
<1>7. SharedIsSeen'
  <2> SUFFICES ASSUME NEW d \in Using', NEW e \in Using', d # e, name'[d] = name'[e]
               PROVE  d \in shared'
    BY DEF SharedIsSeen
  <2>1. d \in Calls /\ e \in Calls
    BY DEF Using
  <2>2. CASE d = c
    <3>1. e \in Using /\ name[e] = Path(c, stamp)
      BY <1>3, <1>5, <2>1, <2>2
    <3> QED
      BY <1>1, <2>2, <3>1
  <2>3. CASE e = c
    <3>1. d \in Using /\ name[d] = Path(c, stamp)
      BY <1>3, <1>5, <2>1, <2>3
    <3> QED
      BY <1>1, <3>1
  <2>4. CASE d # c /\ e # c
    <3>1. d \in Using /\ e \in Using /\ name[d] = name[e]
      BY <1>3, <1>5, <2>1, <2>4
    <3> QED
      BY <1>1, <3>1 DEF SharedIsSeen
  <2> QED
    BY <2>2, <2>3, <2>4
<1> QED
  BY <1>6, <1>7

LEMMA CreateStep ==
  ASSUME FilesType, NamesStay, SharedIsSeen, NEW c \in Calls, CreateFile(c)
  PROVE  NamesStay' /\ SharedIsSeen'
<1> DEFINE f == IF dir[name[c]] = NoFile THEN c ELSE dir[name[c]]
<1>1. c \in Unopened /\ c \in Using /\ name[c] \in Paths /\ open[c] = NoFile
  BY DEF CreateFile, NamesStay, Using, Unopened
<1>2. /\ f \in Calls /\ name[f] = name[c]
      /\ f = c \/ (f = dir[name[c]] /\ open[f] = f /\ f # c)
  BY <1>1, CallsAssumption DEF FilesType, NamesStay
<1>3. dir' = [dir EXCEPT ![name[c]] = f] /\ open' = [open EXCEPT ![c] = f]
  BY DEF CreateFile
<1> HIDE DEF f
<1>4. /\ dir'[name[c]] = f /\ \A p \in Paths : p # name[c] => dir'[p] = dir[p]
      /\ open'[c] = f /\ \A d \in Calls \ {c} : open'[d] = open[d]
      /\ at[c] = "create" /\ at'[c] = "write" /\ \A d \in Calls \ {c} : at'[d] = at[d]
      /\ UNCHANGED <<name, copied, shared>>
  BY <1>1, <1>3 DEF CreateFile, FilesType
<1>5. Using' = Using /\ Unopened' = Unopened \ {c}
  BY <1>1, <1>4 DEF Using, Unopened
<1>6. open'[f] = f
  BY <1>2, <1>4
<1>7. NamesStay'
  <2>1. \A d \in Unopened' : open'[d] = NoFile /\ copied'[d] = 0
    BY <1>4, <1>5 DEF NamesStay, Unopened
  <2>2. \A d \in Using' : name'[d] \in Paths /\ (d \notin Unopened' => open'[d] # NoFile)
    <3>1. f # NoFile
      BY <1>2, CallsAssumption
    <3>2. \A d \in Using : d \in Calls
      BY DEF Using
    <3> QED
      BY <1>4, <1>5, <3>1, <3>2 DEF NamesStay
  <2>3. \A p \in Paths : dir'[p] # NoFile => name'[dir'[p]] = p /\ open'[dir'[p]] = dir'[p]
    <3> SUFFICES ASSUME NEW p \in Paths, dir'[p] # NoFile
                 PROVE  name[dir'[p]] = p /\ open'[dir'[p]] = dir'[p]
      BY <1>4
    <3>1. CASE p = name[c]
      BY <1>2, <1>4, <1>6, <3>1
    <3>2. CASE p # name[c]
      <4>1. dir[p] \in Calls /\ name[dir[p]] = p /\ open[dir[p]] = dir[p]
        BY <1>4, <3>2 DEF FilesType, NamesStay
      <4> QED
        BY <1>4, <3>2, <4>1
    <3> QED
      BY <3>1, <3>2
  <2>4. \A d \in Calls : open'[d] # NoFile =>
          name'[d] \in Paths /\ name'[open'[d]] = name'[d] /\ open'[open'[d]] = open'[d]
    <3> SUFFICES ASSUME NEW d \in Calls, open'[d] # NoFile
                 PROVE  name[d] \in Paths /\ name[open'[d]] = name[d]
                        /\ open'[open'[d]] = open'[d]
      BY <1>4
    <3>1. CASE d = c
      BY <1>1, <1>2, <1>4, <1>6, <3>1
    <3>2. CASE d # c
      <4>1. /\ open[d] \in Calls /\ open[open[d]] = open[d]
            /\ name[d] \in Paths /\ name[open[d]] = name[d]
        BY <1>4, <3>2 DEF FilesType, NamesStay
      <4>2. open[d] # c
        BY <1>1, <4>1, CallsAssumption
      <4> QED
        BY <1>4, <3>2, <4>1, <4>2
    <3> QED
      BY <3>1, <3>2
  <2> QED
    BY <2>1, <2>2, <2>3, <2>4 DEF NamesStay
<1>8. SharedIsSeen'
  BY <1>4, <1>5 DEF SharedIsSeen
<1> QED
  BY <1>7, <1>8

LEMMA NamesStep ==
  ASSUME FilesType, NamesStay, SharedIsSeen, [FilesNext]_filesVars
  PROVE  NamesStay' /\ SharedIsSeen'
<1>1. CASE UNCHANGED filesVars
  <2>1. Using' = Using /\ Unopened' = Unopened /\ UNCHANGED <<name, dir, open, shared, copied>>
    BY <1>1 DEF filesVars, Using, Unopened
  <2> QED
    BY <2>1, QuietNames
<1>2. ASSUME NEW c \in Calls, RemoveFile(c)
      PROVE  NamesStay' /\ SharedIsSeen'
  <2>1. /\ at[c] = "remove" /\ at'[c] \in {"put", "ok"}
        /\ \A d \in Calls \ {c} : at'[d] = at[d]
        /\ UNCHANGED <<name, copied, open, shared>>
    BY <1>2 DEF RemoveFile, AfterRemove, FilesType
  <2>2. Using' = Using \ {c} /\ Unopened' = Unopened
    BY <2>1 DEF Using, Unopened
  <2>3. \A p \in Paths : dir'[p] \in {dir[p], NoFile}
    BY <1>2 DEF RemoveFile, Without, FilesType
  <2>4. NamesStay'
    BY <2>1, <2>2, <2>3 DEF NamesStay
  <2>5. SharedIsSeen'
    BY <2>1, <2>2 DEF SharedIsSeen
  <2> QED
    BY <2>4, <2>5
<1>3. CASE Crash
  <2>1. /\ \A d \in Calls : at'[d] = at[d] \/ at'[d] = "failed"
        /\ \A d \in Calls : at'[d] = "ready" <=> at[d] = "ready"
        /\ UNCHANGED <<name, copied, dir, open, shared>>
    BY <1>3 DEF Crash, FilesType
  <2>2. /\ Using' \subseteq Using /\ Unopened' \subseteq Unopened
        /\ (Using \ Unopened)' \subseteq Using \ Unopened
    BY <2>1 DEF Using, Unopened
  <2> QED
    BY <2>1, <2>2, QuietNames
<1> QED
  BY <1>1, <1>2, <1>3, QuietStep, ChooseStep, CreateStep
     DEF FilesNext, Refuse, ConnectFails, CreateFails, WriteFails, ReadFails, PutFails

\* What another call uses is not the file of a call that is not shared.
LEMMA FilesAreApart ==
  ASSUME FilesType, NamesStay, SharedIsSeen, NEW c \in Using \ Unopened, c \notin shared,
         NEW d \in Using, d # c
  PROVE  /\ name[d] # name[c] /\ open[d] # open[c] /\ dir[name[d]] # open[c]
         /\ d \in Unopened => d # open[c]
<1>1. c \in Calls /\ d \in Calls /\ c \in Using
  BY DEF Using
<1>2. open[c] # NoFile /\ name[open[c]] = name[c] /\ open[open[c]] = open[c]
  BY <1>1 DEF NamesStay
<1>3. name[d] # name[c]
  BY <1>1 DEF SharedIsSeen
<1>4. open[d] # open[c]
  <2>1. open[d] # NoFile => name[open[d]] = name[d]
    BY <1>1 DEF NamesStay
  <2> QED
    BY <1>2, <1>3, <2>1
<1>5. dir[name[d]] # open[c]
  <2>1. dir[name[d]] # NoFile => name[dir[name[d]]] = name[d]
    BY <1>1 DEF NamesStay
  <2> QED
    BY <1>2, <1>3, <2>1
<1>6. d \in Unopened => d # open[c]
  BY <1>2 DEF NamesStay
<1> QED
  BY <1>3, <1>4, <1>5, <1>6

\* Whatever another call does leaves the file of a call that is not shared.
LEMMA OthersLeaveIt ==
  ASSUME FilesType, NamesStay, SharedIsSeen, NEW c \in Calls, c \notin shared, Owns(c),
         at[c] \in {"write", "read", "remove"}, NEW d \in Calls, d # c,
         \/ Fail(d) \/ ChooseName(d) \/ Connect(d) \/ CreateFile(d) \/ WritePart(d)
         \/ Written(d) \/ ReadBack(d) \/ RemoveFile(d) \/ PutObject(d)
  PROVE  /\ dir'[name[c]] = dir[name[c]] /\ file'[open[c]] = file[open[c]]
         /\ open'[c] = open[c] /\ name'[c] = name[c]
<1>1. c \in Using \ Unopened /\ name[c] \in Paths /\ open[c] \in Calls
  BY DEF Using, Unopened, NamesStay, FilesType
<1>2. CASE Fail(d) \/ Connect(d) \/ Written(d) \/ ReadBack(d) \/ PutObject(d)
  BY <1>2 DEF Fail, Connect, Written, ReadBack, PutObject
<1>3. CASE ChooseName(d)
  <2>1. PICK stamp \in Stamps : name' = [name EXCEPT ![d] = Path(d, stamp)]
    BY <1>3 DEF ChooseName
  <2>2. name'[c] = name[c] /\ UNCHANGED <<dir, file, open>>
    BY <1>3, <2>1 DEF ChooseName, FilesType
  <2> QED
    BY <2>2
<1>4. CASE CreateFile(d)
  <2> DEFINE f == IF dir[name[d]] = NoFile THEN d ELSE dir[name[d]]
  <2>1. d \in Using /\ d \in Unopened
    BY <1>4 DEF CreateFile, Using, Unopened
  <2>2. name[d] # name[c] /\ f # open[c]
    BY <1>1, <2>1, FilesAreApart
  <2>3. /\ dir' = [dir EXCEPT ![name[d]] = f] /\ open' = [open EXCEPT ![d] = f]
        /\ file' = [file EXCEPT ![f] = Truncated(@)] /\ UNCHANGED name
    BY <1>4 DEF CreateFile
  <2> HIDE DEF f
  <2> QED
    BY <1>1, <2>2, <2>3 DEF FilesType
<1>5. CASE WritePart(d)
  <2>1. d \in Using /\ open[d] # open[c]
    BY <1>1, <1>5, FilesAreApart DEF WritePart, Using
  <2>2. /\ file' = [file EXCEPT ![open[d]] = WrittenAt(@, copied[d] + 1, Source(d)[copied[d] + 1])]
        /\ UNCHANGED <<dir, open, name>>
    BY <1>5 DEF WritePart
  <2> QED
    BY <1>1, <2>1, <2>2 DEF FilesType
<1>6. CASE RemoveFile(d)
  <2>1. d \in Using /\ name[d] # name[c]
    BY <1>1, <1>6, FilesAreApart DEF RemoveFile, Using
  <2>2. dir' = [dir EXCEPT ![name[d]] = NoFile] /\ UNCHANGED <<file, open, name>>
    BY <1>6 DEF RemoveFile, Without
  <2> QED
    BY <1>1, <2>1, <2>2 DEF FilesType
<1> QED
  BY <1>2, <1>3, <1>4, <1>5, <1>6

LEMMA OthersKeepOwn ==
  ASSUME FilesType, NamesStay, SharedIsSeen, NEW c \in Calls, c \notin shared, Owns(c),
         NEW d \in Calls, d # c,
         \/ Fail(d) \/ ChooseName(d) \/ Connect(d) \/ CreateFile(d) \/ WritePart(d)
         \/ Written(d) \/ ReadBack(d) \/ RemoveFile(d) \/ PutObject(d)
  PROVE  Owns(c)'
<1>1. at'[c] = at[c] /\ copied'[c] = copied[c] /\ got'[c] = got[c] /\ UNCHANGED request
  BY DEF Fail, ChooseName, Connect, CreateFile, WritePart, Written, ReadBack, RemoveFile,
         PutObject, FilesType
<1>2. Size(c)' = Size(c) /\ Source(c)' = Source(c)
  BY <1>1 DEF Size, Source
<1>3. CASE at[c] \in {"write", "read", "remove"}
  <2>1. /\ dir'[name[c]] = dir[name[c]] /\ file'[open[c]] = file[open[c]]
        /\ open'[c] = open[c] /\ name'[c] = name[c]
    BY <1>3, OthersLeaveIt
  <2> QED
    BY <1>1, <1>2, <2>1 DEF Owns
<1>4. CASE at[c] \notin {"write", "read", "remove"}
  BY <1>1, <1>2, <1>4 DEF Owns
<1> QED
  BY <1>3, <1>4

LEMMA OwnKeepsOwn ==
  ASSUME FilesType, NamesStay, NEW c \in Calls, c \notin shared, Owns(c),
         \/ Fail(c) \/ ChooseName(c) \/ Connect(c) \/ CreateFile(c) \/ WritePart(c)
         \/ Written(c) \/ ReadBack(c) \/ RemoveFile(c) \/ PutObject(c)
  PROVE  Owns(c)'
<1>1. UNCHANGED request /\ at' = [at EXCEPT ![c] = at'[c]]
  BY DEF Fail, ChooseName, Connect, CreateFile, WritePart, Written, ReadBack, RemoveFile,
         PutObject, FilesType
<1>2. Size(c)' = Size(c) /\ Source(c)' = Source(c) /\ Size(c) \in Nat
  BY <1>1, RequestFacts DEF Size, Source
<1>3. CASE Fail(c) \/ Connect(c) \/ Written(c) \/ PutObject(c)
  BY <1>2, <1>3 DEF Fail, Connect, Written, PutObject, Owns, FilesType
<1>4. CASE ChooseName(c)
  <2>1. at'[c] \in {"create", "connect"} /\ copied'[c] = copied[c]
    BY <1>4 DEF ChooseName, FilesType
  <2> QED
    BY <1>2, <2>1 DEF Owns
<1>5. CASE CreateFile(c)
  <2> DEFINE f == IF dir[name[c]] = NoFile THEN c ELSE dir[name[c]]
  <2>1. name[c] \in Paths /\ f \in Calls /\ copied[c] = 0
    BY <1>5 DEF CreateFile, NamesStay, Using, Unopened, FilesType
  <2>2. /\ dir' = [dir EXCEPT ![name[c]] = f] /\ open' = [open EXCEPT ![c] = f]
        /\ file' = [file EXCEPT ![f] = <<>>] /\ UNCHANGED <<name, copied>>
        /\ at'[c] = "write"
    BY <1>5 DEF CreateFile, Truncated, FilesType
  <2> HIDE DEF f
  <2>3. dir'[name'[c]] = f /\ open'[c] = f /\ file'[f] = <<>> /\ copied'[c] = 0
    BY <2>1, <2>2 DEF FilesType
  <2> QED
    BY <1>2, <2>2, <2>3 DEF Owns
<1>6. CASE WritePart(c)
  <2> DEFINE i == copied[c] + 1
             old == file[open[c]]
             part == Source(c)[i]
             w == WrittenAt(old, i, part)
  <2>1. /\ at[c] = "write" /\ copied[c] < Size(c) /\ copied[c] \in Nat
        /\ file' = [file EXCEPT ![open[c]] = w] /\ copied' = [copied EXCEPT ![c] = i]
        /\ UNCHANGED <<at, dir, open, name>>
    BY <1>6 DEF WritePart, FilesType
  <2>2. open[c] \in Calls
    BY <2>1 DEF NamesStay, Using, Unopened, FilesType
  <2>3. i \in Nat \ {0} /\ i \in 1..Size(c) /\ Source(c)[i] = <<c, i>>
    BY <1>2, <2>1 DEF Source
  <2>4. file[open[c]] \in Seq(Parts) /\ Source(c)[i] \in Parts
    BY <2>2, <2>3 DEF Parts, FilesType
  <2>5. /\ Len(file[open[c]]) = copied[c]
        /\ \A j \in 1..copied[c] : file[open[c]][j] = <<c, j>>
    BY <2>1 DEF Owns
  <2>6. Len(w) = i /\ w[i] = <<c, i>> /\ \A j \in 1..copied[c] : w[j] = <<c, j>>
    <3>1. i = Len(old) + 1 => Appended(w, old, i, part)
      <4>1. i \in Nat \ {0} /\ old \in Seq(Parts) /\ part \in Parts
        BY <2>3, <2>4
      <4> HIDE DEF i, old, part
      <4> QED
        BY <4>1, WriteFacts
    <3> HIDE DEF w
    <3> QED
      BY <2>3, <2>5, <3>1 DEF Appended
  <2> HIDE DEF w
  <2>7. \A j \in 1..i : w[j] = <<c, j>>
    BY <2>1, <2>6
  <2>8. file'[open'[c]] = w /\ copied'[c] = i
    BY <2>1, <2>2 DEF FilesType
  <2> QED
    BY <1>2, <2>1, <2>3, <2>6, <2>7, <2>8 DEF Owns
<1>7. CASE ReadBack(c)
  <2>1. /\ at[c] = "read" /\ at'[c] = "remove" /\ got'[c] = file[dir[name[c]]]
        /\ UNCHANGED <<copied, dir, open, file, name>>
    BY <1>7 DEF ReadBack, FilesType
  <2>2. dir[name[c]] = open[c] /\ open[c] \in Calls
    BY <2>1 DEF Owns, NamesStay, Using, Unopened, FilesType
  <2>3. got'[c] \in Seq(Parts) /\ Len(got'[c]) = Size(c)
        /\ \A j \in 1..Size(c) : got'[c][j] = <<c, j>>
    BY <2>1, <2>2 DEF Owns, FilesType
  <2>4. got'[c] = Source(c)
    <3>1. got'[c] = [j \in 1..Size(c) |-> got'[c][j]]
      BY <1>2, <2>3
    <3> QED
      BY <2>3, <3>1 DEF Source
  <2> QED
    BY <1>2, <2>1, <2>2, <2>4 DEF Owns
<1>8. CASE RemoveFile(c)
  <2>1. /\ at[c] = "remove" /\ at'[c] \in {"put", "ok"}
        /\ UNCHANGED <<got, copied>>
    BY <1>8 DEF RemoveFile, AfterRemove, FilesType
  <2> QED
    BY <1>2, <2>1 DEF Owns
<1> QED
  BY <1>3, <1>4, <1>5, <1>6, <1>7, <1>8

LEMMA OwnStep ==
  ASSUME FilesType, NamesStay, SharedIsSeen, \A c \in Calls \ shared : Owns(c),
         [FilesNext]_filesVars
  PROVE  (\A c \in Calls \ shared : Owns(c))'
<1>1. shared \subseteq shared'
  BY DEF FilesNext, filesVars, Refuse, ChooseName, Connect, ConnectFails, CreateFile,
         CreateFails, WritePart, WriteFails, Written, ReadBack, ReadFails, RemoveFile,
         PutObject, PutFails, Crash, Fail
<1> SUFFICES ASSUME NEW c \in Calls, c \notin shared PROVE Owns(c)'
  BY <1>1
<1>2. CASE UNCHANGED filesVars
  BY <1>2 DEF filesVars, Owns, Size, Source
<1>3. CASE Crash
  <2>1. /\ at'[c] \in {at[c], "failed"} /\ UNCHANGED <<copied, got, dir, open, name, file>>
        /\ Size(c)' = Size(c) /\ Source(c)' = Source(c)
    BY <1>3 DEF Crash, Size, Source
  <2> QED
    BY <2>1 DEF Owns
<1>4. ASSUME NEW d \in Calls,
             \/ Fail(d) \/ ChooseName(d) \/ Connect(d) \/ CreateFile(d) \/ WritePart(d)
             \/ Written(d) \/ ReadBack(d) \/ RemoveFile(d) \/ PutObject(d)
      PROVE  Owns(c)'
  <2>1. CASE d = c
    BY <1>4, <2>1, OwnKeepsOwn
  <2>2. CASE d # c
    BY <1>4, <2>2, OthersKeepOwn
  <2> QED
    BY <2>1, <2>2
<1> QED
  BY <1>2, <1>3, <1>4
     DEF FilesNext, Refuse, ConnectFails, CreateFails, WriteFails, ReadFails, PutFails

LEMMA LeftoversStep ==
  ASSUME FilesType, NamesStay, LeftoversAreFailures, [FilesNext]_filesVars
  PROVE  LeftoversAreFailures'
<1> SUFFICES ASSUME NEW p \in Paths, dir'[p] # NoFile,
                    \A c \in Using' : name'[c] # p
             PROVE  \E c \in Calls : name'[c] = p /\ at'[c] = "failed"
  BY DEF LeftoversAreFailures
<1> DEFINE Left == dir[p] # NoFile /\ (\A c \in Using : name[c] # p)
<1>1. Left => \E c \in Calls : name[c] = p /\ at[c] = "failed"
  BY DEF LeftoversAreFailures
<1>2. CASE UNCHANGED filesVars
  BY <1>1, <1>2 DEF filesVars, Using
<1>3. CASE Crash
  <2>1. \A c \in Using : at'[c] = "failed"
    BY <1>3 DEF Crash, Using
  <2>2. \A c \in Calls : at[c] = "failed" => at'[c] = "failed"
    BY <1>3 DEF Crash
  <2>3. UNCHANGED <<dir, name>> /\ Using \subseteq Calls
    BY <1>3 DEF Crash, Using
  <2> QED
    BY <1>1, <2>1, <2>2, <2>3
<1>4. ASSUME NEW c \in Calls,
             \/ Fail(c) \/ Connect(c) \/ WritePart(c)
             \/ Written(c) \/ ReadBack(c) \/ PutObject(c)
      PROVE  \E d \in Calls : name'[d] = p /\ at'[d] = "failed"
  <2>1. UNCHANGED <<dir, name>> /\ \A d \in Calls \ {c} : at'[d] = at[d]
    BY <1>4 DEF Fail, Connect, WritePart, Written, ReadBack, PutObject, FilesType
  <2>2. at'[c] = "failed" \/ (at[c] # "failed" /\ (c \in Using => c \in Using'))
          \/ at[c] = "put"
    BY <1>4 DEF Fail, Connect, WritePart, Written, ReadBack, PutObject, FilesType, Using
  <2>3. \A d \in Using : d = c \/ d \in Using'
    BY <2>1 DEF Using
  <2>4. c \in Using => at[c] # "put"
    BY DEF Using
  <2>5. CASE at'[c] = "failed" /\ name[c] = p
    BY <2>1, <2>5
  <2>6. CASE ~(at'[c] = "failed" /\ name[c] = p)
    <3>1. Left
      BY <2>1, <2>2, <2>3, <2>4, <2>6
    <3>2. PICK d \in Calls : name[d] = p /\ at[d] = "failed"
      BY <1>1, <3>1
    <3>3. at'[d] = "failed"
      BY <2>1, <2>2, <2>6, <3>2
    <3> QED
      BY <2>1, <3>2, <3>3
  <2> QED
    BY <2>5, <2>6
<1>5. ASSUME NEW c \in Calls, ChooseName(c) \/ CreateFile(c) \/ RemoveFile(c)
      PROVE  \E d \in Calls : name'[d] = p /\ at'[d] = "failed"
  <2>1. /\ at[c] # "failed" /\ \A d \in Calls \ {c} : at'[d] = at[d] /\ name'[d] = name[d]
        /\ \A d \in Using : d = c \/ d \in Using'
    BY <1>5 DEF ChooseName, CreateFile, RemoveFile, FilesType, Using
  <2>2. Left
    <3>1. CASE ChooseName(c)
      <4>1. c \notin Using /\ dir' = dir
        BY <3>1 DEF ChooseName, Using
      <4> QED
        BY <2>1, <4>1 DEF Using
    <3>2. CASE CreateFile(c)
      <4>1. c \in Using /\ c \in Using' /\ name' = name
        BY <3>2 DEF CreateFile, Using, FilesType
      <4>2. p # name[c]
        BY <4>1
      <4>3. dir'[p] = dir[p]
        BY <3>2, <4>2 DEF CreateFile, FilesType
      <4> QED
        BY <2>1, <4>1, <4>2, <4>3
    <3>3. CASE RemoveFile(c)
      <4>1. c \in Using /\ name' = name /\ dir' = [dir EXCEPT ![name[c]] = NoFile]
        BY <3>3 DEF RemoveFile, Without, Using
      <4>2. p # name[c] /\ dir'[p] = dir[p]
        BY <4>1 DEF FilesType
      <4> QED
        BY <2>1, <4>1, <4>2
    <3> QED
      BY <1>5, <3>1, <3>2, <3>3
  <2> QED
    BY <1>1, <2>1, <2>2
<1> QED
  BY <1>2, <1>3, <1>4, <1>5
     DEF FilesNext, Refuse, ConnectFails, CreateFails, WriteFails, ReadFails, PutFails

LEMMA FilesInitHolds == FilesInit => FilesInv
<1> SUFFICES ASSUME FilesInit PROVE FilesInv
  OBVIOUS
<1>1. FilesType
  <2>1. <<>> \in Seq(Parts)
    OBVIOUS
  <2> QED
    BY <2>1 DEF FilesInit, FilesType, TransferPlaces
<1>2. Using = {} /\ \A p \in Paths : dir[p] = NoFile
  BY DEF FilesInit, Using
<1>3. \A c \in Calls : open[c] = NoFile /\ copied[c] = 0 /\ at[c] = "ready"
  BY DEF FilesInit
<1>4. NamesStay /\ SharedIsSeen /\ LeftoversAreFailures
  BY <1>2, <1>3 DEF NamesStay, SharedIsSeen, LeftoversAreFailures, Unopened
<1>5. \A c \in Calls : Owns(c)
  BY <1>1, <1>3, RequestFacts DEF Owns
<1> QED
  BY <1>1, <1>4, <1>5 DEF FilesInv

(***************************************************************************)
(* Whatever the clock says, fails or crashes: names, open files and what   *)
(* they hold belong together.                                              *)
(***************************************************************************)
THEOREM FilesInvariance == FilesSpec => []FilesInv
<1>1. FilesInv /\ [FilesNext]_filesVars => FilesInv'
  <2> SUFFICES ASSUME FilesInv, [FilesNext]_filesVars PROVE FilesInv'
    OBVIOUS
  <2>1. FilesType' /\ NamesStay' /\ SharedIsSeen'
    BY FilesTypeStep, NamesStep DEF FilesInv
  <2>2. (\A c \in Calls \ shared : Owns(c))'
    BY OwnStep DEF FilesInv
  <2>3. LeftoversAreFailures'
    BY LeftoversStep DEF FilesInv
  <2> QED
    BY <2>1, <2>2, <2>3 DEF FilesInv
<1> QED
  BY <1>1, FilesInitHolds, PTL DEF FilesSpec

(***************************************************************************)
(* A download or an export reads back its own source, even under a name    *)
(* that another call left behind, unless two calls use one name at a time. *)
(***************************************************************************)
THEOREM TransfersReadTheirOwn == FilesSpec => []AnswersAreOwn
<1>1. FilesInv => AnswersAreOwn
  BY DEF FilesInv, AnswersAreOwn, Owns
<1> QED
  BY <1>1, FilesInvariance, PTL

(***************************************************************************)
(* A temporary file that no call is using bears the name of a call that    *)
(* failed: file_transfer.rs and object_store.rs leave no other.            *)
(***************************************************************************)
THEOREM OnlyFailuresLeaveFiles == FilesSpec => []LeftoversAreFailures
<1>1. FilesInv => LeftoversAreFailures
  BY DEF FilesInv
<1> QED
  BY <1>1, FilesInvariance, PTL

-----------------------------------------------------------------------------
(***************************************************************************)
(* The invariant of JvmCalls.  Where a call is says what it has; two calls *)
(* with one file know it; the file of one that is not shared holds its     *)
(* rows until its own thread deletes it.                                   *)
(***************************************************************************)
JvmPlaces == {"ready", "decode", "parse", "act", "name", "write", "slice", "out",
              "copied", "spark", "delete", "failed", "over"}
AnswerKinds == {KindOf(call) : call \in Invocations}
TempPaths == AnswerKinds \X Clock
Frames == [rows : Seq(Rows), type : Looks \cup {"Utf8"}]
Envelopes == [ok : BOOLEAN, kind : AnswerKinds \cup {"error"}, rows : Seq(Rows),
              total : Nat, floor : Int, file : TempPaths \cup {NoTemp}]
JvmStates == [call : Invocations, at : JvmPlaces, acted : BOOLEAN,
              file : TempPaths \cup {NoTemp}, shared : BOOLEAN, answer : Envelopes,
              data : Frames]

JvmType ==
  /\ jvm \in [JvmThreads -> JvmStates]
  /\ slices \in [JvmThreads -> [made : Nat, freed : Nat]]
  /\ DOMAIN temps \subseteq TempPaths /\ temps \in [DOMAIN temps -> Seq(Rows)]

InLibrary(t) == jvm[t].at \in {"ready", "decode", "parse", "act", "name", "write"}
StageFollows(t) ==
  /\ InLibrary(t) => ~jvm[t].answer.ok
  /\ jvm[t].at \in {"ready", "decode", "parse", "act", "name"} => jvm[t].file = NoTemp
  /\ jvm[t].at \in {"name", "write"} =>
       jvm[t].acted /\ jvm[t].call.mode # "unknown" /\ InTempFile(jvm[t].call)
  /\ jvm[t].at \in {"ready", "decode", "parse", "act"} => ~jvm[t].acted
  /\ jvm[t].file # NoTemp => InTempFile(jvm[t].call)
  /\ jvm[t].at = "write" => jvm[t].file # NoTemp
  /\ jvm[t].at \in {"out", "copied"} => jvm[t].call.out = "given"
  /\ jvm[t].at = "delete" => jvm[t].answer.ok /\ jvm[t].file # NoTemp

EnvelopeFollows(t) == jvm[t].answer.ok =>
  /\ jvm[t].call.mode # "unknown" /\ jvm[t].answer.kind = KindOf(jvm[t].call)
  /\ jvm[t].answer.file = jvm[t].file
  /\ InTempFile(jvm[t].call) => jvm[t].file # NoTemp

StringsAreText(t) == ~AnyArgument(t, Takes[EntryOf(t)], {"null", "bytes"})
JsonIsGood(t) == ~AnyArgument(t, Parses(EntryOf(t)), {"text"})
ArgumentsAreRead(t) ==
  /\ At(t, "parse") \/ At(t, "act") \/ jvm[t].acted => StringsAreText(t)
  /\ At(t, "act") \/ jvm[t].acted => JsonIsGood(t)

\* The properties of one call.
SliceIsFreedOnce(t) ==
  LET over == jvm[t].at \in {"spark", "delete", "failed", "over"}
      held == jvm[t].at \in {"out", "copied"}
  IN  slices[t] = [made |-> IF over \/ held THEN 1 ELSE 0, freed |-> IF over THEN 1 ELSE 0]
EnvelopeIsTrue(call, answer) ==
  /\ answer.total = Len(call.rows) /\ IsPrefix(answer.rows, call.rows)
  /\ answer.file = NoTemp /\ call.entry # "ordered" => answer.rows = call.rows
  /\ answer.file = NoTemp /\ call.entry = "ordered" =>
       /\ call.rows # <<>> => answer.rows # <<>>
       /\ \A i \in 1..Len(call.rows) : call.rows[i].n <= answer.floor
AnswerIsTrue(t) ==
  jvm[t].answer.ok => jvm[t].acted /\ EnvelopeIsTrue(jvm[t].call, jvm[t].answer)
SameRows(framed, sent, csv) ==
  /\ Len(framed.rows) = Len(sent)
  /\ \A i \in 1..Len(sent) :
       /\ framed.rows[i].n = sent[i].n
       /\ framed.rows[i].text = sent[i].text
            \/ (csv /\ framed.rows[i].text = "Null" /\ sent[i].text = "")
  /\ framed.type # "Utf8" =>
       csv /\ \A i \in 1..Len(sent) : sent[i].text \in {"Null", "", framed.type}
SentTo(call, answer, csv) == IF csv THEN Lines(answer.rows, call.wide) ELSE call.rows
SparkGetsRows(t) ==
  (jvm[t].at \in {"delete", "over"} /\ jvm[t].call.spark /\ jvm[t].answer.ok) =>
    \/ jvm[t].shared \/ jvm[t].call.out = "null"
    \/ SameRows(jvm[t].data, SentTo(jvm[t].call, jvm[t].answer, jvm[t].file = NoTemp),
                jvm[t].file = NoTemp)

CallIsSound(t) ==
  /\ StageFollows(t) /\ EnvelopeFollows(t) /\ ArgumentsAreRead(t)
  /\ SliceIsFreedOnce(t) /\ AnswerIsTrue(t) /\ SparkGetsRows(t)

OneName == \A t, u \in JvmThreads :
  t # u /\ jvm[t].file = jvm[u].file /\ jvm[t].file # NoTemp => jvm[t].shared
FileIsThere(t) ==
  (/\ jvm[t].at \in {"slice", "out", "copied", "spark"} /\ ~jvm[t].shared
   /\ jvm[t].answer.ok /\ jvm[t].file # NoTemp)
     => jvm[t].file \in DOMAIN temps /\ temps[jvm[t].file] = jvm[t].call.rows

JvmInv == /\ JvmType /\ OneName /\ LeftFilesAreKnown
          /\ \A t \in JvmThreads : CallIsSound(t) /\ FileIsThere(t)

-----------------------------------------------------------------------------
(* Invocations and their answers                                           *)

JvmSpec == JvmInit /\ [][JvmNext]_jvmVars

LEMMA InvocationFacts ==
  ASSUME NEW call \in Invocations
  PROVE  /\ call.entry \in DOMAIN Takes /\ call.mode \in Modes(call.entry)
         /\ call.rows \in Seq(Rows) /\ Len(call.rows) \in Nat
         /\ call.out \in {"null", "given"} /\ call.fails \in BOOLEAN
         /\ call.spark \in BOOLEAN /\ call.wide \in BOOLEAN
         /\ call.cap # <<>> => call.cap[1] \in Nat
<1>1. call \in Invocation /\ Len(call.cap) <= 1 /\ call.mode \in Modes(call.entry)
  BY InvocationsAssumption
<1>2. call.cap \in Seq(Nat) /\ call.rows \in Seq(Rows) /\ call.entry \in DOMAIN Takes
      /\ call.out \in {"null", "given"} /\ call.fails \in BOOLEAN /\ call.spark \in BOOLEAN
      /\ call.wide \in BOOLEAN
  BY <1>1 DEF Invocation
<1>3. call.cap # <<>> => call.cap[1] \in Nat
  BY <1>2
<1> QED
  BY <1>1, <1>2, <1>3

LEMMA KindFacts ==
  ASSUME NEW call \in Invocations, call.mode # "unknown"
  PROVE  /\ InTempFile(call) => KindOf(call) \notin {"path", "excel", "load", "poll_loaded",
                                                    "ingest_ordered_paths_dataset"}
         /\ ~InTempFile(call) => KindOf(call) \notin SparkReads
<1>1. call.entry \in {"path", "ordered", "load", "poll", "poll_loaded", "export", "excel",
                      "sample"}
  BY InvocationFacts DEF Takes
<1>2. CASE call.entry = "ordered"
  <2>1. call.mode \in {"dataset", "parquet", "arrow"}
    BY <1>2, InvocationFacts DEF Modes
  <2>2. CASE call.mode = "dataset"
    BY <1>2, <2>2 DEF KindOf, InTempFile, SparkReads
  <2>3. CASE call.mode = "parquet"
    BY <1>2, <2>3 DEF KindOf, InTempFile, SparkReads
  <2>4. CASE call.mode = "arrow"
    BY <1>2, <2>4 DEF KindOf, InTempFile, SparkReads
  <2> QED
    BY <2>1, <2>2, <2>3, <2>4
<1>3. CASE call.entry = "sample"
  <2>1. call.mode \in {"parquet", "arrow", "polars"}
    BY <1>3, InvocationFacts DEF Modes
  <2>2. CASE call.mode = "polars"
    BY <1>3, <2>2 DEF KindOf, InTempFile, SparkReads
  <2>3. CASE call.mode = "parquet"
    BY <1>3, <2>3 DEF KindOf, InTempFile, SparkReads
  <2>4. CASE call.mode = "arrow"
    BY <1>3, <2>4 DEF KindOf, InTempFile, SparkReads
  <2> QED
    BY <2>1, <2>2, <2>3, <2>4
<1>4. CASE call.entry \notin {"ordered", "sample"}
  BY <1>1, <1>4 DEF KindOf, InTempFile, SparkReads
<1> QED
  BY <1>1, <1>2, <1>3, <1>4

LEMMA NoTempIsNone == NoTemp \notin TempPaths
<1> SUFFICES ASSUME NEW s \in AnswerKinds, NEW c \in Clock, <<>> = <<s, c>>
             PROVE  FALSE
  BY DEF NoTemp, TempPaths
<1>1. Len(<<>>) = Len(<<s, c>>)
  OBVIOUS
<1> QED
  BY <1>1

\* max_watermark_value is the greatest of the rows.
LEMMA FloorFacts ==
  ASSUME NEW rows \in Seq(Rows)
  PROVE  Floor(rows) \in Int /\ \A i \in 1..Len(rows) : rows[i].n <= Floor(rows)
<1> DEFINE n == Len(rows)
           w(i) == rows[i].n
           Below(k) == \E m \in 1..k : \A i \in 1..k : w(i) <= w(m)
           S == {k \in 0..n : k = 0 \/ Below(k)}
<1>1. n \in Nat /\ \A i \in 1..n : w(i) \in Int
  <2> SUFFICES ASSUME NEW i \in 1..n PROVE w(i) \in Int
    OBVIOUS
  <2>1. rows[i] \in Rows
    OBVIOUS
  <2> QED
    BY <2>1 DEF Rows
<1>2. 0 \in S
  BY <1>1
<1>3. \A i \in 1..n : i - 1 \in S => i \in S
  <2> SUFFICES ASSUME NEW k \in 1..n, k - 1 \in S
               PROVE  k \in S
    OBVIOUS
  <2>0. k \in 0..n /\ (k # 1 => Below(k - 1))
    BY <1>1
  <2> SUFFICES Below(k)
    BY <2>0
  <2> HIDE DEF w
  <2>1. CASE k = 1
    <3>1. 1 \in 1..k /\ \A i \in 1..k : w(i) <= w(1)
      BY <1>1, <2>1
    <3> QED
      BY <3>1
  <2>2. CASE k # 1
    <3>1. PICK m \in 1..(k - 1) : \A i \in 1..(k - 1) : w(i) <= w(m)
      BY <2>0, <2>2
    <3>2. w(k) \in Int /\ w(m) \in Int /\ m \in 1..k /\ k \in 1..k
      BY <1>1, <3>1
    <3>3. CASE w(k) <= w(m)
      <4>1. \A i \in 1..k : w(i) <= w(m)
        BY <1>1, <3>1, <3>3
      <4> QED
        BY <3>2, <4>1
    <3>4. CASE w(m) < w(k)
      <4>1. \A i \in 1..k : w(i) <= w(k)
        BY <1>1, <3>1, <3>2, <3>4
      <4> QED
        BY <3>2, <4>1
    <3> QED
      BY <3>2, <3>3, <3>4
  <2> QED
    BY <2>1, <2>2
<1>4. 0..n \subseteq S
  <2> HIDE DEF S
  <2> QED
    BY <1>1, <1>2, <1>3, IntervalInduction
<1>5. CASE rows = <<>>
  BY <1>5 DEF Floor
<1>6. CASE rows # <<>>
  <2>1. n \in 0..n /\ n # 0
    BY <1>1, <1>6
  <2>2. PICK m \in 1..n : \A i \in 1..n : w(i) <= w(m)
    BY <1>4, <2>1
  <2> DEFINE W == {rows[i].n : i \in 1..Len(rows)}
  <2>3. \E v \in W : \A i \in 1..Len(rows) : rows[i].n <= v
    BY <2>2
  <2>4. Floor(rows) = CHOOSE v \in W : \A i \in 1..Len(rows) : rows[i].n <= v
    BY <1>6 DEF Floor
  <2>5. Floor(rows) \in W /\ \A i \in 1..Len(rows) : rows[i].n <= Floor(rows)
    BY <2>3, <2>4
  <2> QED
    BY <1>1, <2>5
<1> QED
  BY <1>5, <1>6

LEMMA JvmInvIsEnough == JvmInv => NothingLeaks /\ JvmAnswerIsTrue /\ SparkGetsItsRows
<1> SUFFICES ASSUME JvmInv PROVE NothingLeaks /\ JvmAnswerIsTrue /\ SparkGetsItsRows
  OBVIOUS
<1>1. NothingLeaks
  BY DEF JvmInv, NothingLeaks, SlicesAreFreedOnce, CallIsSound, SliceIsFreedOnce
<1>2. JvmAnswerIsTrue
  <2> SUFFICES ASSUME NEW t \in JvmThreads
               PROVE  /\ jvm[t].acted => StringsAreText(t) /\ JsonIsGood(t)
                      /\ AnswerIsTrue(t)
    BY DEF JvmAnswerIsTrue, StringsAreText, JsonIsGood, AnswerIsTrue, EnvelopeIsTrue, EntryOf
  <2> QED
    BY DEF JvmInv, CallIsSound, ArgumentsAreRead
<1>3. SparkGetsItsRows
  <2> SUFFICES ASSUME NEW t \in JvmThreads PROVE SparkGetsRows(t)
    BY DEF SparkGetsItsRows, SparkGetsRows, SameRows, SentTo
  <2> QED
    BY DEF JvmInv, CallIsSound
<1> QED
  BY <1>1, <1>2, <1>3

LEMMA FailureIsTyped == Failure \in Envelopes /\ ~Failure.ok
BY DEF Failure, Envelopes

LEMMA CapIsPositive ==
  ASSUME NEW call \in Invocations
  PROVE  Cap(call) \in Nat /\ Cap(call) >= 1
BY InvocationFacts, InvocationsAssumption DEF Cap

LEMMA DatasetFacts ==
  ASSUME NEW call \in Invocations
  PROVE  /\ DatasetAnswer(call) \in Envelopes /\ DatasetAnswer(call).ok
         /\ DatasetAnswer(call).kind = KindOf(call) /\ DatasetAnswer(call).file = NoTemp
         /\ EnvelopeIsTrue(call, DatasetAnswer(call))
<1> DEFINE rows == call.rows
           n == IF call.entry = "ordered" THEN Cap(call) ELSE Len(rows)
           m == IF n < Len(rows) THEN n ELSE Len(rows)
           sent == SubSeq(rows, 1, m)
           floor == IF call.entry = "ordered" THEN Floor(rows) ELSE 0
           answer == DatasetAnswer(call)
<1>1. rows \in Seq(Rows) /\ Len(rows) \in Nat /\ n \in Nat /\ m \in 0..Len(rows)
  BY InvocationFacts, CapIsPositive
<1>2. /\ sent \in Seq(Rows) /\ Len(sent) = m
      /\ \A i \in 1..m : sent[i] = rows[i]
  BY <1>1
<1>3. answer = [Failure EXCEPT !.ok = TRUE, !.kind = KindOf(call), !.total = Len(rows),
                               !.rows = sent, !.floor = floor]
  <2> HIDE DEF floor, m
  <2>1. floor = IF call.entry = "ordered" THEN Floor(FloorRows(rows, n)) ELSE 0
    BY DEF floor, FloorRows
  <2>2. m = IF n < Len(rows) THEN n ELSE Len(rows)
    BY DEF m
  <2> HIDE DEF n
  <2>3. n = IF call.entry = "ordered" THEN Cap(call) ELSE Len(rows)
    BY DEF n
  <2> QED
    BY <2>1, <2>2, <2>3, Zenon DEF DatasetAnswer
<1>4. floor \in Int /\ (call.entry = "ordered" => \A i \in 1..Len(rows) : rows[i].n <= floor)
  BY <1>1, FloorFacts
<1>5. IsPrefix(sent, rows)
  BY <1>1, <1>2 DEF IsPrefix
<1>6. call.entry # "ordered" => sent = rows
  BY <1>1, <1>2
<1>7. call.entry = "ordered" /\ rows # <<>> => sent # <<>>
  BY <1>1, <1>2, CapIsPositive
<1>8. answer \in Envelopes
  <2>1. KindOf(call) \in AnswerKinds
    BY DEF AnswerKinds
  <2> HIDE DEF sent, floor
  <2> QED
    BY <1>1, <1>2, <1>3, <1>4, <2>1, FailureIsTyped DEF Envelopes
<1>9. /\ answer.ok = TRUE /\ answer.kind = KindOf(call) /\ answer.file = NoTemp
      /\ answer.total = Len(rows) /\ answer.rows = sent /\ answer.floor = floor
  BY <1>3 DEF Failure
<1> QED
  BY <1>4, <1>5, <1>6, <1>7, <1>8, <1>9 DEF EnvelopeIsTrue

-----------------------------------------------------------------------------
(* The steps of a call.  Most touch nothing that another call sees.         *)

OthersKeep(t) == \A u \in JvmThreads \ {t} :
  /\ jvm'[u].call = jvm[u].call /\ jvm'[u].at = jvm[u].at /\ jvm'[u].acted = jvm[u].acted
  /\ jvm'[u].file = jvm[u].file /\ jvm'[u].answer = jvm[u].answer
  /\ jvm'[u].data = jvm[u].data /\ slices'[u] = slices[u]
  /\ jvm[u].shared => jvm'[u].shared

HasFile(t) ==
  jvm[t].at \in {"slice", "out", "copied", "spark"} /\ jvm[t].answer.ok /\ jvm[t].file # NoTemp
MayLeave(t) ==
  ~jvm[t].call.spark \/ jvm[t].call.out = "null" \/ jvm[t].shared \/ jvm[t].file = NoTemp

Quietly(t) ==
  /\ JvmType' /\ temps' = temps /\ OthersKeep(t)
  /\ jvm'[t].call = jvm[t].call /\ jvm'[t].file = jvm[t].file
  /\ jvm'[t].shared = jvm[t].shared /\ (HasFile(t)' => HasFile(t))
  /\ jvm'[t].at = "over" => MayLeave(t)

LEMMA ArgumentsStay ==
  ASSUME NEW t \in JvmThreads, jvm'[t].call = jvm[t].call
  PROVE  (StringsAreText(t)' <=> StringsAreText(t)) /\ (JsonIsGood(t)' <=> JsonIsGood(t))
BY DEF StringsAreText, JsonIsGood, AnyArgument, EntryOf

LEMMA OthersStaySound ==
  ASSUME JvmInv, NEW t \in JvmThreads, OthersKeep(t)
  PROVE  \A u \in JvmThreads \ {t} : CallIsSound(u)'
<1> SUFFICES ASSUME NEW u \in JvmThreads \ {t} PROVE CallIsSound(u)'
  OBVIOUS
<1>1. /\ jvm'[u].call = jvm[u].call /\ jvm'[u].at = jvm[u].at /\ jvm'[u].acted = jvm[u].acted
      /\ jvm'[u].file = jvm[u].file /\ jvm'[u].answer = jvm[u].answer
      /\ jvm'[u].data = jvm[u].data /\ slices'[u] = slices[u]
      /\ jvm[u].shared => jvm'[u].shared
  BY DEF OthersKeep
<1>2. CallIsSound(u)
  BY DEF JvmInv
<1>3. StageFollows(u)' /\ EnvelopeFollows(u)'
  BY <1>1, <1>2 DEF CallIsSound, StageFollows, EnvelopeFollows, InLibrary
<1>4. ArgumentsAreRead(u)'
  BY <1>1, <1>2, ArgumentsStay DEF CallIsSound, ArgumentsAreRead, At
<1>5. SliceIsFreedOnce(u)' /\ AnswerIsTrue(u)'
  BY <1>1, <1>2 DEF CallIsSound, SliceIsFreedOnce, AnswerIsTrue
<1>6. SparkGetsRows(u)'
  BY <1>1, <1>2 DEF CallIsSound, SparkGetsRows
<1> QED
  BY <1>3, <1>4, <1>5, <1>6 DEF CallIsSound

LEMMA QuietKeeps ==
  ASSUME JvmInv, NEW t \in JvmThreads, Quietly(t), CallIsSound(t)'
  PROVE  JvmInv'
<1>1. /\ jvm'[t].call = jvm[t].call /\ jvm'[t].file = jvm[t].file
      /\ jvm'[t].shared = jvm[t].shared /\ temps' = temps
  BY DEF Quietly
<1>2. \A u \in JvmThreads : CallIsSound(u)'
  BY OthersStaySound DEF Quietly
<1>3. \A u \in JvmThreads :
        jvm'[u].call = jvm[u].call /\ jvm'[u].file = jvm[u].file
        /\ (jvm[u].shared => jvm'[u].shared)
  BY <1>1 DEF Quietly, OthersKeep
<1>4. OneName'
  BY <1>3 DEF JvmInv, OneName
<1>5. LeftFilesAreKnown'
  <2> SUFFICES ASSUME NEW path \in DOMAIN temps
               PROVE  \E u \in JvmThreads : jvm'[u].file = path /\ (jvm'[u].at = "over" =>
                        ~jvm'[u].call.spark \/ jvm'[u].call.out = "null" \/ jvm'[u].shared)
    BY <1>1 DEF LeftFilesAreKnown
  <2>1. PICK u \in JvmThreads : jvm[u].file = path /\ (jvm[u].at = "over" =>
               ~jvm[u].call.spark \/ jvm[u].call.out = "null" \/ jvm[u].shared)
    BY DEF JvmInv, LeftFilesAreKnown
  <2>2. path # NoTemp
    BY NoTempIsNone DEF JvmInv, JvmType
  <2>3. CASE u = t
    BY <1>1, <2>1, <2>2, <2>3 DEF Quietly, MayLeave
  <2>4. CASE u # t
    BY <2>1, <2>4 DEF Quietly, OthersKeep
  <2> QED
    BY <2>3, <2>4
<1>6. ASSUME NEW u \in JvmThreads PROVE FileIsThere(u)'
  <2>1. FileIsThere(u)
    BY DEF JvmInv
  <2>2. CASE u = t
    BY <1>1, <2>1, <2>2 DEF Quietly, FileIsThere, HasFile
  <2>3. CASE u # t
    BY <1>1, <2>1, <2>3 DEF Quietly, OthersKeep, FileIsThere
  <2> QED
    BY <2>2, <2>3
<1> QED
  BY <1>2, <1>4, <1>5, <1>6 DEF JvmInv, Quietly

\* A step that gives jvm[t] a new value, and may change the slice.
Becomes(t, r, s) ==
  jvm' = [jvm EXCEPT ![t] = r] /\ slices' = [slices EXCEPT ![t] = s] /\ temps' = temps
FitsIn(t, r) ==
  /\ r.call = jvm[t].call /\ r.file = jvm[t].file /\ r.shared = jvm[t].shared
  /\ (r.at \in {"slice", "out", "copied", "spark"} /\ r.answer.ok /\ r.file # NoTemp
        => HasFile(t))
  /\ r.at = "over" => MayLeave(t)
Slices == [made : Nat, freed : Nat]

LEMMA QuietIs ==
  ASSUME JvmInv, NEW t \in JvmThreads, NEW r \in JvmStates, NEW s \in Slices,
         Becomes(t, r, s), FitsIn(t, r)
  PROVE  Quietly(t) /\ jvm'[t] = r /\ slices'[t] = s
<1>1. JvmType'
  BY DEF JvmInv, JvmType, Becomes, Slices
<1>2. jvm'[t] = r /\ slices'[t] = s
  BY DEF JvmInv, JvmType, Becomes
<1>3. OthersKeep(t)
  BY DEF JvmInv, JvmType, OthersKeep, Becomes
<1> QED
  BY <1>1, <1>2, <1>3 DEF Quietly, HasFile, Becomes, FitsIn

LEMMA CallIsTyped ==
  ASSUME JvmInv, NEW t \in JvmThreads
  PROVE  /\ jvm[t] \in JvmStates /\ slices[t] \in Slices
         /\ jvm[t].call \in Invocations /\ jvm[t].answer \in Envelopes
         /\ CallIsSound(t) /\ slices = [slices EXCEPT ![t] = slices[t]]
BY DEF JvmInv, JvmType, JvmStates, Slices

\* Where a call is.
Stays(t) == /\ jvm'[t].call = jvm[t].call /\ jvm'[t].file = jvm[t].file
            /\ jvm'[t].shared = jvm[t].shared /\ jvm'[t].acted = jvm[t].acted
Keeps(t) == Stays(t) /\ jvm'[t].answer = jvm[t].answer /\ jvm'[t].data = jvm[t].data

LEMMA MoveIs ==
  ASSUME JvmInv, NEW t \in JvmThreads, NEW place \in JvmPlaces, NEW s \in Slices,
         Moves(t, place), slices' = [slices EXCEPT ![t] = s], temps' = temps,
         place \in {"slice", "out", "copied", "spark"} =>
           jvm[t].at \in {"slice", "out", "copied", "spark"},
         place = "over" => MayLeave(t)
  PROVE  Quietly(t) /\ Keeps(t) /\ jvm'[t].at = place /\ slices'[t] = s
<1> DEFINE r == [jvm[t] EXCEPT !.at = place]
<1>1. r \in JvmStates
  BY CallIsTyped DEF JvmStates
<1>2. Becomes(t, r, s)
  BY CallIsTyped DEF Moves, Becomes
<1>3. r.call = jvm[t].call /\ r.file = jvm[t].file /\ r.shared = jvm[t].shared /\ r.at = place
      /\ r.answer = jvm[t].answer /\ r.acted = jvm[t].acted /\ r.data = jvm[t].data
  BY CallIsTyped DEF JvmStates
<1> HIDE DEF r
<1>4. FitsIn(t, r)
  BY <1>3 DEF FitsIn, HasFile
<1> QED
  BY <1>1, <1>2, <1>3, <1>4, QuietIs DEF Stays, Keeps

LEMMA AnswerIs ==
  ASSUME JvmInv, NEW t \in JvmThreads, Answers(t, Failure),
         slices' = slices, temps' = temps
  PROVE  /\ Quietly(t) /\ Stays(t) /\ jvm'[t].at = "slice" /\ jvm'[t].answer = Failure
         /\ jvm'[t].data = jvm[t].data /\ slices'[t] = slices[t]
<1> DEFINE r == [jvm[t] EXCEPT !.at = "slice", !.answer = Failure]
<1>1. r \in JvmStates
  BY CallIsTyped, FailureIsTyped DEF JvmStates, JvmPlaces
<1>2. Becomes(t, r, slices[t])
  BY CallIsTyped DEF Answers, Becomes
<1>3. r.call = jvm[t].call /\ r.file = jvm[t].file /\ r.shared = jvm[t].shared /\ r.at = "slice"
      /\ r.answer = Failure /\ r.acted = jvm[t].acted /\ r.data = jvm[t].data
  BY CallIsTyped DEF JvmStates
<1> HIDE DEF r
<1>4. FitsIn(t, r)
  BY <1>3, FailureIsTyped DEF FitsIn
<1> QED
  BY <1>1, <1>2, <1>3, <1>4, CallIsTyped, QuietIs DEF Stays

LEMMA InvokeKeeps ==
  ASSUME JvmInv, NEW t \in JvmThreads, Invoke(t)
  PROVE  JvmInv'
<1>1. Quietly(t) /\ Keeps(t) /\ jvm'[t].at = "decode" /\ slices'[t] = slices[t]
  BY CallIsTyped, MoveIs DEF Invoke, JvmPlaces
<1>2. jvm[t].at = "ready" /\ CallIsSound(t)
  BY CallIsTyped DEF Invoke, At
<1>3. CallIsSound(t)'
  BY <1>1, <1>2, ArgumentsStay
     DEF CallIsSound, StageFollows, EnvelopeFollows, InLibrary, ArgumentsAreRead, At,
         SliceIsFreedOnce, AnswerIsTrue, SparkGetsRows, Keeps, Stays
<1> QED
  BY <1>1, <1>3, QuietKeeps

LEMMA DecodeStringsKeeps ==
  ASSUME JvmInv, NEW t \in JvmThreads, DecodeStrings(t)
  PROVE  JvmInv'
<1>1. jvm[t].at = "decode" /\ CallIsSound(t)
  BY CallIsTyped DEF DecodeStrings, At
<1>2. CASE StringsAreText(t)
  <2>1. Quietly(t) /\ Keeps(t) /\ jvm'[t].at = "parse" /\ slices'[t] = slices[t]
    BY <1>2, CallIsTyped, MoveIs DEF DecodeStrings, StringsAreText, JvmPlaces
  <2>2. CallIsSound(t)'
    BY <1>1, <1>2, <2>1, ArgumentsStay
       DEF CallIsSound, StageFollows, EnvelopeFollows, InLibrary, ArgumentsAreRead, At,
           SliceIsFreedOnce, AnswerIsTrue, SparkGetsRows, Keeps, Stays
  <2> QED
    BY <2>1, <2>2, QuietKeeps
<1>3. CASE ~StringsAreText(t)
  <2>1. /\ Quietly(t) /\ Stays(t) /\ jvm'[t].at = "slice" /\ jvm'[t].answer = Failure
        /\ slices'[t] = slices[t]
    BY <1>3, AnswerIs DEF DecodeStrings, StringsAreText
  <2>2. CallIsSound(t)'
    BY <1>1, <2>1, ArgumentsStay, FailureIsTyped
       DEF CallIsSound, StageFollows, EnvelopeFollows, InLibrary, ArgumentsAreRead, At,
           SliceIsFreedOnce, AnswerIsTrue, SparkGetsRows, Stays
  <2> QED
    BY <2>1, <2>2, QuietKeeps
<1> QED
  BY <1>2, <1>3

LEMMA ParseArgumentsKeeps ==
  ASSUME JvmInv, NEW t \in JvmThreads, ParseArguments(t)
  PROVE  JvmInv'
<1>1. jvm[t].at = "parse" /\ CallIsSound(t)
  BY CallIsTyped DEF ParseArguments, At
<1>2. CASE JsonIsGood(t)
  <2>1. Quietly(t) /\ Keeps(t) /\ jvm'[t].at = "act" /\ slices'[t] = slices[t]
    BY <1>2, CallIsTyped, MoveIs DEF ParseArguments, JsonIsGood, JvmPlaces
  <2>2. CallIsSound(t)'
    BY <1>1, <1>2, <2>1, ArgumentsStay
       DEF CallIsSound, StageFollows, EnvelopeFollows, InLibrary, ArgumentsAreRead, At,
           SliceIsFreedOnce, AnswerIsTrue, SparkGetsRows, Keeps, Stays
  <2> QED
    BY <2>1, <2>2, QuietKeeps
<1>3. CASE ~JsonIsGood(t)
  <2>1. /\ Quietly(t) /\ Stays(t) /\ jvm'[t].at = "slice" /\ jvm'[t].answer = Failure
        /\ slices'[t] = slices[t]
    BY <1>3, AnswerIs DEF ParseArguments, JsonIsGood
  <2>2. CallIsSound(t)'
    BY <1>1, <2>1, ArgumentsStay, FailureIsTyped
       DEF CallIsSound, StageFollows, EnvelopeFollows, InLibrary, ArgumentsAreRead, At,
           SliceIsFreedOnce, AnswerIsTrue, SparkGetsRows, Stays
  <2> QED
    BY <2>1, <2>2, QuietKeeps
<1> QED
  BY <1>2, <1>3

LEMMA CountsOfASlice ==
  ASSUME NEW s, s = [made |-> 0, freed |-> 0], NEW f \in Nat
  PROVE  [s EXCEPT !.made = @ + 1, !.freed = @ + f] = [made |-> 1, freed |-> f]
<1> DEFINE e == [s EXCEPT !.made = 1, !.freed = f]
<1>1. s.made + 1 = 1 /\ s.freed + f = f
  OBVIOUS
<1>2. [s EXCEPT !.made = @ + 1, !.freed = @ + f] = e
  <2>1. [s EXCEPT !.made = @ + 1, !.freed = @ + f]
          = [s EXCEPT !.made = s.made + 1, !.freed = s.freed + f]
    OBVIOUS
  <2> QED
    BY <1>1, <2>1, Zenon
<1>3. e \in [made : Nat, freed : Nat] /\ e.made = 1 /\ e.freed = f
  OBVIOUS
<1> HIDE DEF e
<1>4. e = [made |-> 1, freed |-> f]
  BY <1>3
<1> QED
  BY <1>2, <1>4

LEMMA WriteSliceKeeps ==
  ASSUME JvmInv, NEW t \in JvmThreads, WriteSlice(t)
  PROVE  JvmInv'
<1> DEFINE null == jvm[t].call.out = "null"
           s == [made |-> 1, freed |-> IF null THEN 1 ELSE 0]
           place == IF null THEN "over" ELSE "out"
<1>1. jvm[t].at = "slice" /\ CallIsSound(t) /\ jvm[t].call.out \in {"null", "given"}
  BY CallIsTyped, InvocationFacts DEF WriteSlice, At
<1>2. slices[t] = [made |-> 0, freed |-> 0]
  BY <1>1 DEF CallIsSound, SliceIsFreedOnce
<1>3. slices' = [slices EXCEPT ![t] = s] /\ s \in Slices
  <2> DEFINE f == IF null THEN 1 ELSE 0
  <2>1. slices' = [slices EXCEPT ![t] = [slices[t] EXCEPT !.made = @ + 1, !.freed = @ + f]]
    BY CallIsTyped DEF WriteSlice, WrittenSlices
  <2>2. f \in Nat
    OBVIOUS
  <2> HIDE DEF f
  <2>3. [slices[t] EXCEPT !.made = @ + 1, !.freed = @ + f] = [made |-> 1, freed |-> f]
    BY <1>2, <2>2, CountsOfASlice
  <2>4. [made |-> 1, freed |-> f] = s
    BY DEF f
  <2> QED
    BY <2>1, <2>2, <2>3, <2>4 DEF Slices
<1>4. Moves(t, place) /\ temps' = temps /\ place \in JvmPlaces /\ (place = "over" => MayLeave(t))
  BY DEF WriteSlice, JvmPlaces, MayLeave
<1>5. Quietly(t) /\ Keeps(t) /\ jvm'[t].at = place /\ slices'[t] = s
  <2> HIDE DEF s, place
  <2> QED
    BY <1>1, <1>3, <1>4, MoveIs
<1>6. CallIsSound(t)'
  BY <1>1, <1>5, ArgumentsStay
     DEF CallIsSound, StageFollows, EnvelopeFollows, InLibrary, ArgumentsAreRead, At,
         SliceIsFreedOnce, AnswerIsTrue, SparkGetsRows, Keeps, Stays
<1> QED
  BY <1>5, <1>6, QuietKeeps

LEMMA ReadSliceKeeps ==
  ASSUME JvmInv, NEW t \in JvmThreads, ReadSlice(t)
  PROVE  JvmInv'
<1>1. jvm[t].at = "out" /\ CallIsSound(t)
  BY CallIsTyped DEF ReadSlice, At
<1>2. Quietly(t) /\ Keeps(t) /\ jvm'[t].at = "copied" /\ slices'[t] = slices[t]
  BY <1>1, CallIsTyped, MoveIs DEF ReadSlice, JvmPlaces
<1>3. CallIsSound(t)'
  BY <1>1, <1>2, ArgumentsStay
     DEF CallIsSound, StageFollows, EnvelopeFollows, InLibrary, ArgumentsAreRead, At,
         SliceIsFreedOnce, AnswerIsTrue, SparkGetsRows, Keeps, Stays
<1> QED
  BY <1>2, <1>3, QuietKeeps

LEMMA FreeSliceKeeps ==
  ASSUME JvmInv, NEW t \in JvmThreads, FreeSlice(t)
  PROVE  JvmInv'
<1> DEFINE s == [made |-> 1, freed |-> 1]
           place == IF jvm[t].call.spark THEN "spark" ELSE "over"
<1>1. jvm[t].at = "copied" /\ CallIsSound(t)
  BY CallIsTyped DEF FreeSlice, At
<1>2. slices[t] = [made |-> 1, freed |-> 0]
  BY <1>1 DEF CallIsSound, SliceIsFreedOnce
<1>3. slices' = [slices EXCEPT ![t] = s] /\ s \in Slices
  <2>1. slices' = [slices EXCEPT ![t] = [slices[t] EXCEPT !.freed = 0 + 1]]
    BY <1>2, CallIsTyped DEF FreeSlice
  <2>2. [slices[t] EXCEPT !.freed = 0 + 1] = s
    BY <1>2
  <2> QED
    BY <2>1, <2>2 DEF Slices
<1>4. Moves(t, place) /\ temps' = temps /\ place \in JvmPlaces /\ (place = "over" => MayLeave(t))
  BY DEF FreeSlice, JvmPlaces, MayLeave
<1>5. Quietly(t) /\ Keeps(t) /\ jvm'[t].at = place /\ slices'[t] = s
  <2> HIDE DEF s, place
  <2> QED
    BY <1>1, <1>3, <1>4, MoveIs
<1>6. CallIsSound(t)'
  BY <1>1, <1>5, ArgumentsStay
     DEF CallIsSound, StageFollows, EnvelopeFollows, InLibrary, ArgumentsAreRead, At,
         SliceIsFreedOnce, AnswerIsTrue, SparkGetsRows, Keeps, Stays
<1> QED
  BY <1>5, <1>6, QuietKeeps

\* What the materializer does when it fails.
LEMMA SparkFailsKeeps ==
  ASSUME JvmInv, NEW t \in JvmThreads, At(t, "spark"), SparkFails(t),
         slices' = slices, temps' = temps
  PROVE  JvmInv'
<1>1. jvm[t].at = "spark" /\ CallIsSound(t)
  BY CallIsTyped DEF At
<1>2. Quietly(t) /\ Keeps(t) /\ jvm'[t].at = "failed" /\ slices'[t] = slices[t]
  BY <1>1, CallIsTyped, MoveIs DEF SparkFails, JvmPlaces
<1>3. CallIsSound(t)'
  BY <1>1, <1>2, ArgumentsStay
     DEF CallIsSound, StageFollows, EnvelopeFollows, InLibrary, ArgumentsAreRead, At,
         SliceIsFreedOnce, AnswerIsTrue, SparkGetsRows, Keeps, Stays
<1> QED
  BY <1>2, <1>3, QuietKeeps

LEMMA MaterializesIs ==
  ASSUME JvmInv, NEW t \in JvmThreads, NEW place \in {"delete", "over"},
         NEW frame \in Frames, Materializes(t, frame, place),
         slices' = slices, temps' = temps, place = "over" => MayLeave(t)
  PROVE  /\ Quietly(t) /\ Stays(t) /\ jvm'[t].at = place /\ slices'[t] = slices[t]
         /\ jvm'[t].answer = jvm[t].answer /\ jvm'[t].data = frame
<1> DEFINE r == [jvm[t] EXCEPT !.data = frame, !.at = place]
<1>1. r \in JvmStates
  BY CallIsTyped DEF JvmStates, JvmPlaces
<1>2. Becomes(t, r, slices[t])
  BY CallIsTyped DEF Materializes, Becomes
<1>3. r.call = jvm[t].call /\ r.file = jvm[t].file /\ r.shared = jvm[t].shared /\ r.at = place
      /\ r.answer = jvm[t].answer /\ r.acted = jvm[t].acted /\ r.data = frame
  BY CallIsTyped DEF JvmStates
<1> HIDE DEF r
<1>4. FitsIn(t, r)
  BY <1>3 DEF FitsIn
<1> QED
  BY <1>1, <1>2, <1>3, <1>4, CallIsTyped, QuietIs DEF Stays

\* The lines of a CSV are rows that were sent, and those that are a text come as
\* they are.
LEMMA LinesFacts ==
  ASSUME NEW rows \in Seq(Rows), NEW wide \in BOOLEAN
  PROVE  /\ Lines(rows, wide) \in Seq(Rows)
         /\ \A k \in 1..Len(Lines(rows, wide)) : \E i \in 1..Len(rows) :
              Lines(rows, wide)[k] = rows[i]
<1> DEFINE line(i) == IF wide \/ IsLine(rows[i]) THEN <<rows[i]>> ELSE <<>>
           s == [i \in 1..Len(rows) |-> line(i)]
<1>1. Len(rows) \in Nat /\ \A i \in 1..Len(rows) : rows[i] \in Rows
  OBVIOUS
<1>2. \A i \in 1..Len(rows) : line(i) \in Seq(Rows)
  BY <1>1
<1>3. Lines(rows, wide) = FlattenSeq(s)
  BY DEF Lines
<1>4. \A i \in 1..Len(rows) : \A j \in 1..Len(line(i)) : line(i)[j] = rows[i]
  OBVIOUS
<1> HIDE DEF line
<1>5. s \in Seq(Seq(Rows)) /\ Len(s) = Len(rows)
      /\ \A i \in 1..Len(rows) : s[i] = line(i)
  BY <1>1, <1>2
<1> HIDE DEF s
<1>6. /\ FlattenSeq(s) \in Seq(Rows)
      /\ \A k \in 1..Len(FlattenSeq(s)) :
           \E i \in 1..Len(s) : \E j \in 1..Len(s[i]) : FlattenSeq(s)[k] = s[i][j]
  BY <1>5, FlattenFrom
<1> QED
  BY <1>3, <1>4, <1>5, <1>6

LEMMA InferredFacts ==
  ASSUME NEW rows \in Seq(Rows)
  PROVE  /\ InferredAs(rows) \in Looks \cup {"Utf8"}
         /\ InferredAs(rows) # "Utf8" => \A i \in 1..Len(rows) :
              rows[i].text \in {"Null", "", InferredAs(rows)}
<1>1. CASE \E look \in Looks : TextsOf(rows) = {look}
  <2>1. PICK look \in Looks : TextsOf(rows) = {look}
    BY <1>1
  <2>2. InferredAs(rows) = look
    BY <1>1, <2>1 DEF InferredAs
  <2>3. ASSUME NEW i \in 1..Len(rows) PROVE rows[i].text \in {"Null", "", look}
    BY <2>1 DEF TextsOf
  <2> QED
    BY <2>2, <2>3
<1>2. CASE ~\E look \in Looks : TextsOf(rows) = {look}
  BY <1>2 DEF InferredAs
<1> QED
  BY <1>1, <1>2

LEMMA ThroughCsvFacts ==
  ASSUME NEW rows \in Seq(Rows), NEW wide \in BOOLEAN
  PROVE  /\ Frame(ThroughCsv(rows, wide), InferredAs(rows)) \in Frames
         /\ SameRows(Frame(ThroughCsv(rows, wide), InferredAs(rows)), Lines(rows, wide), TRUE)
<1> DEFINE lines == Lines(rows, wide)
           cell(i) == SparkRow(lines[i])
           through == ThroughCsv(rows, wide)
           framed == Frame(through, InferredAs(rows))
<1>0. lines \in Seq(Rows) /\ Len(lines) \in Nat
      /\ \A k \in 1..Len(lines) : \E i \in 1..Len(rows) : lines[k] = rows[i]
  BY LinesFacts
<1>1. through = [i \in 1..Len(lines) |-> cell(i)]
  BY DEF ThroughCsv
<1> HIDE DEF lines
<1>2. ASSUME NEW i \in 1..Len(lines)
      PROVE  /\ cell(i) \in Rows /\ cell(i).n = lines[i].n
             /\ cell(i).text = lines[i].text \/ (cell(i).text = "Null" /\ lines[i].text = "")
  <2>1. lines[i] \in Rows
    BY <1>0
  <2> QED
    BY <2>1 DEF Rows, SparkRow
<1> HIDE DEF cell, through
<1>3. through \in Seq(Rows) /\ Len(through) = Len(lines)
      /\ \A i \in 1..Len(lines) : through[i] = cell(i)
  <2>1. [i \in 1..Len(lines) |-> cell(i)] \in [1..Len(lines) -> Rows]
    BY <1>2
  <2>2. through \in [1..Len(lines) -> Rows] /\ \A i \in 1..Len(lines) : through[i] = cell(i)
    BY <1>1, <2>1
  <2>3. \A m \in Nat : \A f \in [1..m -> Rows] : f \in Seq(Rows) /\ Len(f) = m
    OBVIOUS
  <2> QED
    BY <1>0, <2>2, <2>3
<1>4. framed.rows = through /\ framed.type = InferredAs(rows) /\ framed \in Frames
  BY <1>3, InferredFacts DEF Frame, Frames
<1> HIDE DEF framed
<1>5. framed.type # "Utf8" => \A k \in 1..Len(lines) : lines[k].text \in {"Null", "", framed.type}
  BY <1>0, <1>4, InferredFacts
<1>6. SameRows(framed, lines, TRUE)
  BY <1>2, <1>3, <1>4, <1>5 DEF SameRows
<1> QED
  BY <1>4, <1>6 DEF framed, lines, through

LEMMA MaterializeDatasetKeeps ==
  ASSUME JvmInv, NEW t \in JvmThreads, MaterializeDataset(t)
  PROVE  JvmInv'
<1>1. /\ jvm[t].at = "spark" /\ jvm[t].answer.ok /\ HasDataset(jvm[t].answer)
      /\ CallIsSound(t) /\ slices' = slices /\ temps' = temps
  BY CallIsTyped DEF MaterializeDataset, At
<1> DEFINE rows == jvm[t].answer.rows
           frame == Frame(ThroughCsv(rows, jvm[t].call.wide), InferredAs(rows))
<1>2. frame \in Frames /\ SameRows(frame, Lines(rows, jvm[t].call.wide), TRUE)
  <2>1. rows \in Seq(Rows) /\ jvm[t].call.wide \in BOOLEAN
    BY CallIsTyped, InvocationFacts DEF Envelopes
  <2> HIDE DEF rows
  <2> QED
    BY <2>1, ThroughCsvFacts
<1>3. jvm[t].file = NoTemp
  <2>1. jvm[t].answer.kind = KindOf(jvm[t].call) /\ jvm[t].call.mode # "unknown"
    BY <1>1 DEF CallIsSound, EnvelopeFollows
  <2>2. ~InTempFile(jvm[t].call)
    BY <1>1, <2>1, KindFacts, CallIsTyped DEF HasDataset
  <2> QED
    BY <1>1, <2>2 DEF CallIsSound, StageFollows
<1>4. CASE Materializes(t, frame, "over")
  <2> HIDE DEF frame
  <2>1. /\ Quietly(t) /\ Stays(t) /\ jvm'[t].at = "over" /\ slices'[t] = slices[t]
        /\ jvm'[t].answer = jvm[t].answer /\ jvm'[t].data = frame
    BY <1>1, <1>2, <1>3, <1>4, MaterializesIs DEF MayLeave
  <2>2. SparkGetsRows(t)'
    BY <1>2, <1>3, <2>1 DEF SparkGetsRows, SentTo, Stays
  <2>3. CallIsSound(t)'
    BY <1>1, <1>3, <2>1, <2>2, ArgumentsStay
       DEF CallIsSound, StageFollows, EnvelopeFollows, InLibrary, ArgumentsAreRead, At,
           SliceIsFreedOnce, AnswerIsTrue, Stays
  <2> QED
    BY <2>1, <2>3, QuietKeeps
<1>5. CASE SparkFails(t)
  BY <1>1, <1>5, SparkFailsKeeps DEF At
<1> QED
  BY <1>4, <1>5 DEF MaterializeDataset

LEMMA MaterializeFileKeeps ==
  ASSUME JvmInv, NEW t \in JvmThreads, MaterializeFile(t)
  PROVE  JvmInv'
<1>1. /\ jvm[t].at = "spark" /\ jvm[t].answer.ok /\ jvm[t].answer.kind \in SparkReads
      /\ CallIsSound(t) /\ slices' = slices /\ temps' = temps
  BY CallIsTyped DEF MaterializeFile, At
<1> DEFINE rows == temps[jvm[t].file]
           frame == Frame(rows, "Utf8")
<1>2. jvm[t].file # NoTemp
  <2>1. jvm[t].answer.kind = KindOf(jvm[t].call) /\ jvm[t].call.mode # "unknown"
    BY <1>1 DEF CallIsSound, EnvelopeFollows
  <2>2. InTempFile(jvm[t].call)
    BY <1>1, <2>1, KindFacts, CallIsTyped
  <2> QED
    BY <1>1, <2>2 DEF CallIsSound, EnvelopeFollows
<1>3. CASE jvm[t].file \in DOMAIN temps /\ Materializes(t, frame, "delete")
  <2>1. rows \in Seq(Rows)
    BY <1>3 DEF JvmInv, JvmType
  <2>2. frame \in Frames /\ frame.rows = rows /\ frame.type = "Utf8"
    <3> HIDE DEF rows
    <3> QED
      BY <2>1 DEF Frame, Frames
  <2> HIDE DEF frame
  <2>3. /\ Quietly(t) /\ Stays(t) /\ jvm'[t].at = "delete" /\ slices'[t] = slices[t]
        /\ jvm'[t].answer = jvm[t].answer /\ jvm'[t].data = frame
    BY <1>1, <1>3, <2>2, MaterializesIs
  <2>4. jvm[t].shared \/ SameRows(frame, jvm[t].call.rows, FALSE)
    <3>1. CASE ~jvm[t].shared
      <4>1. rows = jvm[t].call.rows
        BY <1>1, <1>2, <3>1 DEF JvmInv, FileIsThere
      <4> QED
        BY <2>2, <4>1 DEF SameRows
    <3> QED
      BY <3>1
  <2> HIDE DEF rows
  <2>5. SparkGetsRows(t)'
    BY <1>2, <2>3, <2>4 DEF SparkGetsRows, SentTo, Stays
  <2>6. CallIsSound(t)'
    BY <1>1, <1>2, <2>3, <2>5, ArgumentsStay
       DEF CallIsSound, StageFollows, EnvelopeFollows, InLibrary, ArgumentsAreRead, At,
           SliceIsFreedOnce, AnswerIsTrue, Stays
  <2> QED
    BY <2>3, <2>6, QuietKeeps
<1>4. CASE SparkFails(t)
  BY <1>1, <1>4, SparkFailsKeeps DEF At
<1> QED
  BY <1>3, <1>4 DEF MaterializeFile

LEMMA ActKeeps ==
  ASSUME JvmInv, NEW t \in JvmThreads, Act(t)
  PROVE  JvmInv'
<1> DEFINE call == jvm[t].call
           silent == call.fails \/ call.mode = "unknown"
           place == IF ~silent /\ InTempFile(call) THEN "name" ELSE "slice"
           reply == IF silent \/ InTempFile(call) THEN Failure ELSE DatasetAnswer(call)
           r == [jvm[t] EXCEPT !.at = place, !.answer = reply, !.acted = TRUE]
<1>1. /\ jvm[t].at = "act" /\ CallIsSound(t) /\ call \in Invocations
      /\ jvm[t].file = NoTemp
  BY CallIsTyped DEF Act, At, CallIsSound, StageFollows
<1>2. /\ reply \in Envelopes
      /\ (reply.ok => /\ ~silent /\ ~InTempFile(call) /\ place = "slice"
                      /\ reply.kind = KindOf(call) /\ reply.file = NoTemp
                      /\ EnvelopeIsTrue(call, reply))
  BY <1>1, FailureIsTyped, DatasetFacts
<1>3. place \in {"name", "slice"} /\ (place = "name" => ~silent /\ InTempFile(call) /\ ~reply.ok)
  BY FailureIsTyped
<1>4. slices' = slices /\ temps' = temps /\ jvm' = [jvm EXCEPT ![t] = r]
  BY <1>1, CallIsTyped DEF Act
<1> HIDE DEF place, reply
<1>5. Becomes(t, r, slices[t]) /\ r \in JvmStates
  BY <1>2, <1>3, <1>4, CallIsTyped DEF Becomes, JvmStates, JvmPlaces
<1>6. r.call = jvm[t].call /\ r.file = jvm[t].file /\ r.shared = jvm[t].shared /\ r.at = place
      /\ r.answer = reply /\ r.acted = TRUE /\ r.data = jvm[t].data
  BY CallIsTyped DEF JvmStates
<1> HIDE DEF r
<1>7. Quietly(t) /\ jvm'[t] = r /\ slices'[t] = slices[t]
  <2>1. FitsIn(t, r)
    BY <1>1, <1>3, <1>6 DEF FitsIn
  <2> QED
    BY <1>5, <2>1, CallIsTyped, QuietIs
<1>8. StageFollows(t)' /\ EnvelopeFollows(t)' /\ SliceIsFreedOnce(t)'
  BY <1>1, <1>2, <1>3, <1>6, <1>7
     DEF CallIsSound, StageFollows, EnvelopeFollows, InLibrary, SliceIsFreedOnce
<1>9. ArgumentsAreRead(t)'
  BY <1>1, <1>6, <1>7, ArgumentsStay DEF CallIsSound, ArgumentsAreRead, At
<1>10. AnswerIsTrue(t)' /\ SparkGetsRows(t)'
  BY <1>2, <1>3, <1>6, <1>7 DEF AnswerIsTrue, SparkGetsRows
<1> QED
  BY <1>7, <1>8, <1>9, <1>10, QuietKeeps DEF CallIsSound

LEMMA RefuseAnswerKeeps ==
  ASSUME JvmInv, NEW t \in JvmThreads, RefuseAnswer(t)
  PROVE  JvmInv'
BY SparkFailsKeeps DEF RefuseAnswer

LEMMA ChooseTempNameKeeps ==
  ASSUME JvmInv, NEW t \in JvmThreads, ChooseTempName(t)
  PROVE  JvmInv'
<1>1. PICK stamp \in Clock :
        LET path == <<KindOf(jvm[t].call), stamp>>
            others == {u \in JvmThreads \ {t} : jvm[u].file = path}
        IN  jvm' = [u \in JvmThreads |->
                      IF u = t THEN [jvm[t] EXCEPT !.at = "write", !.file = path,
                                                   !.shared = others # {}]
                      ELSE IF u \in others THEN [jvm[u] EXCEPT !.shared = TRUE] ELSE jvm[u]]
  BY DEF ChooseTempName
<1> DEFINE path == <<KindOf(jvm[t].call), stamp>>
           others == {u \in JvmThreads \ {t} : jvm[u].file = path}
<1>2. /\ jvm[t].at = "name" /\ CallIsSound(t) /\ jvm[t].file = NoTemp
      /\ slices' = slices /\ temps' = temps
  BY CallIsTyped DEF ChooseTempName, At, CallIsSound, StageFollows
<1>3. path \in TempPaths /\ path # NoTemp
  BY CallIsTyped, NoTempIsNone DEF TempPaths, AnswerKinds
<1> HIDE DEF path
<1>4. /\ jvm'[t] = [jvm[t] EXCEPT !.at = "write", !.file = path, !.shared = others # {}]
      /\ \A u \in JvmThreads \ {t} :
           jvm'[u] = IF u \in others THEN [jvm[u] EXCEPT !.shared = TRUE] ELSE jvm[u]
      /\ jvm' \in [JvmThreads -> {jvm'[u] : u \in JvmThreads}]
  BY <1>1 DEF path
<1> DEFINE r == [jvm[t] EXCEPT !.at = "write", !.file = path, !.shared = others # {}]
<1>5. /\ r \in JvmStates /\ r.call = jvm[t].call /\ r.file = path /\ r.at = "write"
      /\ r.shared = (others # {}) /\ r.answer = jvm[t].answer /\ r.acted = jvm[t].acted
      /\ r.data = jvm[t].data
  <2> HIDE DEF others
  <2> QED
    BY <1>3, CallIsTyped DEF JvmStates, JvmPlaces
<1> HIDE DEF r
<1>6. \A u \in JvmThreads \ {t} :
        /\ jvm'[u] \in JvmStates /\ jvm'[u].call = jvm[u].call /\ jvm'[u].at = jvm[u].at
        /\ jvm'[u].acted = jvm[u].acted /\ jvm'[u].file = jvm[u].file
        /\ jvm'[u].answer = jvm[u].answer /\ jvm'[u].data = jvm[u].data
        /\ (jvm[u].shared => jvm'[u].shared) /\ (u \in others => jvm'[u].shared)
  <2> SUFFICES ASSUME NEW u \in JvmThreads \ {t}
               PROVE  /\ jvm'[u] \in JvmStates /\ jvm'[u].call = jvm[u].call
                      /\ jvm'[u].at = jvm[u].at
                      /\ jvm'[u].acted = jvm[u].acted /\ jvm'[u].file = jvm[u].file
                      /\ jvm'[u].answer = jvm[u].answer /\ jvm'[u].data = jvm[u].data
                      /\ (jvm[u].shared => jvm'[u].shared) /\ (u \in others => jvm'[u].shared)
    OBVIOUS
  <2>1. jvm[u] \in JvmStates
    BY CallIsTyped
  <2> HIDE DEF others
  <2>2. CASE u \in others
    <3>1. jvm'[u] = [jvm[u] EXCEPT !.shared = TRUE]
      BY <1>4, <2>2
    <3> QED
      BY <2>1, <3>1 DEF JvmStates
  <2>3. CASE u \notin others
    <3>1. jvm'[u] = jvm[u]
      BY <1>4, <2>3
    <3> QED
      BY <2>1, <2>3, <3>1
  <2> QED
    BY <2>2, <2>3
<1>7. jvm'[t] = r
  BY <1>4 DEF r
<1>8. OthersKeep(t)
  BY <1>2, <1>6 DEF OthersKeep
<1>9. JvmType'
  <2>1. \A u \in JvmThreads : jvm'[u] \in JvmStates
    BY <1>5, <1>6, <1>7
  <2>2. jvm' \in [JvmThreads -> JvmStates]
    BY <1>4, <2>1
  <2> QED
    BY <1>2, <2>2 DEF JvmInv, JvmType
<1>10. CallIsSound(t)'
  BY <1>2, <1>3, <1>5, <1>7, ArgumentsStay
     DEF CallIsSound, StageFollows, EnvelopeFollows, InLibrary, ArgumentsAreRead, At,
         SliceIsFreedOnce, AnswerIsTrue, SparkGetsRows
<1>11. \A u \in JvmThreads : CallIsSound(u)'
  BY <1>8, <1>10, OthersStaySound
<1>12. OneName'
  <2> SUFFICES ASSUME NEW u \in JvmThreads, NEW v \in JvmThreads, u # v,
                      jvm'[u].file = jvm'[v].file, jvm'[u].file # NoTemp
               PROVE  jvm'[u].shared
    BY DEF OneName
  <2>1. CASE u = t
    <3>1. v \in others
      BY <1>5, <1>6, <1>7, <2>1
    <3> QED
      BY <1>5, <1>7, <2>1, <3>1
  <2>2. CASE v = t
    <3>1. u \in others
      BY <1>5, <1>6, <1>7, <2>2
    <3> QED
      BY <1>6, <3>1
  <2>3. CASE u # t /\ v # t
    BY <1>6, <2>3 DEF JvmInv, OneName
  <2> QED
    BY <2>1, <2>2, <2>3
<1>13. LeftFilesAreKnown'
  <2> SUFFICES ASSUME NEW p \in DOMAIN temps
               PROVE  \E u \in JvmThreads : jvm'[u].file = p /\ (jvm'[u].at = "over" =>
                        ~jvm'[u].call.spark \/ jvm'[u].call.out = "null" \/ jvm'[u].shared)
    BY <1>2 DEF LeftFilesAreKnown
  <2>1. PICK u \in JvmThreads : jvm[u].file = p /\ (jvm[u].at = "over" =>
               ~jvm[u].call.spark \/ jvm[u].call.out = "null" \/ jvm[u].shared)
    BY DEF JvmInv, LeftFilesAreKnown
  <2>2. u # t
    BY <1>2, <2>1, NoTempIsNone DEF JvmInv, JvmType
  <2> QED
    BY <1>6, <2>1, <2>2
<1>14. ASSUME NEW u \in JvmThreads PROVE FileIsThere(u)'
  <2>1. FileIsThere(u)
    BY DEF JvmInv
  <2>2. CASE u = t
    BY <1>5, <1>7, <2>2 DEF FileIsThere
  <2>3. CASE u # t
    BY <1>2, <1>6, <2>1, <2>3 DEF FileIsThere
  <2> QED
    BY <2>2, <2>3
<1> QED
  BY <1>9, <1>11, <1>12, <1>13, <1>14 DEF JvmInv

\* A step that changes no temporary file but its own.
TouchesOwn(t) ==
  /\ JvmType' /\ OthersKeep(t) /\ Stays(t) /\ jvm[t].file # NoTemp
  /\ \A p \in TempPaths \ {jvm[t].file} :
       (p \in DOMAIN temps' <=> p \in DOMAIN temps)
       /\ (p \in DOMAIN temps => temps'[p] = temps[p])
  /\ jvm[t].file \in DOMAIN temps' => jvm'[t].at # "over"

LEMMA OwnFileKeeps ==
  ASSUME JvmInv, NEW t \in JvmThreads, TouchesOwn(t), CallIsSound(t)', FileIsThere(t)'
  PROVE  JvmInv'
<1> DEFINE mine == jvm[t].file
<1>1. /\ jvm'[t].call = jvm[t].call /\ jvm'[t].file = mine /\ mine # NoTemp
      /\ jvm'[t].shared = jvm[t].shared /\ mine \in TempPaths
  BY CallIsTyped DEF TouchesOwn, Stays, JvmStates
<1>2. \A u \in JvmThreads : CallIsSound(u)'
  BY OthersStaySound DEF TouchesOwn
<1>3. \A u \in JvmThreads :
        jvm'[u].call = jvm[u].call /\ jvm'[u].file = jvm[u].file
        /\ (jvm[u].shared => jvm'[u].shared)
  BY <1>1 DEF TouchesOwn, OthersKeep
<1>4. OneName'
  BY <1>3 DEF JvmInv, OneName
<1>5. \A p \in TempPaths \ {mine} :
        (p \in DOMAIN temps' <=> p \in DOMAIN temps)
        /\ (p \in DOMAIN temps => temps'[p] = temps[p])
  BY DEF TouchesOwn
<1>6. LeftFilesAreKnown'
  <2> SUFFICES ASSUME NEW p \in DOMAIN temps'
               PROVE  \E u \in JvmThreads : jvm'[u].file = p /\ (jvm'[u].at = "over" =>
                        ~jvm'[u].call.spark \/ jvm'[u].call.out = "null" \/ jvm'[u].shared)
    BY DEF LeftFilesAreKnown
  <2>1. p \in TempPaths
    BY DEF TouchesOwn, JvmType
  <2>2. CASE p = mine
    BY <1>1, <2>2 DEF TouchesOwn
  <2>3. CASE p # mine
    <3>1. PICK u \in JvmThreads : jvm[u].file = p /\ (jvm[u].at = "over" =>
                 ~jvm[u].call.spark \/ jvm[u].call.out = "null" \/ jvm[u].shared)
      BY <1>5, <2>1, <2>3 DEF JvmInv, LeftFilesAreKnown
    <3>2. u \in JvmThreads \ {t}
      BY <2>3, <3>1
    <3> QED
      BY <3>1, <3>2 DEF TouchesOwn, OthersKeep
  <2> QED
    BY <2>2, <2>3
<1>7. ASSUME NEW u \in JvmThreads PROVE FileIsThere(u)'
  <2>1. CASE u = t
    BY <2>1
  <2>2. CASE u # t /\ jvm[u].file = mine
    BY <1>1, <1>3, <2>2 DEF JvmInv, OneName, FileIsThere
  <2>3. CASE u # t /\ jvm[u].file # mine
    <3> SUFFICES ASSUME jvm'[u].at \in {"slice", "out", "copied", "spark"}, ~jvm'[u].shared,
                        jvm'[u].answer.ok, jvm'[u].file # NoTemp
                 PROVE  jvm'[u].file \in DOMAIN temps'
                        /\ temps'[jvm'[u].file] = jvm'[u].call.rows
      BY DEF FileIsThere
    <3>1. /\ jvm'[u].at = jvm[u].at /\ jvm'[u].answer = jvm[u].answer
          /\ jvm'[u].file = jvm[u].file /\ jvm'[u].call = jvm[u].call /\ ~jvm[u].shared
      BY <1>3, <2>3 DEF TouchesOwn, OthersKeep
    <3>2. jvm[u].file \in DOMAIN temps /\ temps[jvm[u].file] = jvm[u].call.rows
      BY <3>1 DEF JvmInv, FileIsThere
    <3>3. jvm[u].file \in TempPaths \ {mine}
      BY <2>3, <3>2 DEF JvmInv, JvmType
    <3> QED
      BY <1>5, <3>1, <3>2, <3>3
  <2> QED
    BY <2>1, <2>2, <2>3
<1> QED
  BY <1>2, <1>4, <1>6, <1>7 DEF JvmInv, TouchesOwn

LEMMA HoldingFacts ==
  ASSUME JvmType, NEW mine \in TempPaths, NEW rows \in Seq(Rows)
  PROVE  /\ DOMAIN Holding(mine, rows) = DOMAIN temps \cup {mine}
         /\ Holding(mine, rows) \in [DOMAIN temps \cup {mine} -> Seq(Rows)]
         /\ Holding(mine, rows)[mine] = rows
         /\ \A p \in DOMAIN temps \ {mine} : Holding(mine, rows)[p] = temps[p]
BY DEF JvmType, Holding

LEMMA DeleteTempKeeps ==
  ASSUME JvmInv, NEW t \in JvmThreads, DeleteTemp(t)
  PROVE  JvmInv'
<1> DEFINE r == [jvm[t] EXCEPT !.at = "over"]
           mine == jvm[t].file
<1>1. jvm[t].at = "delete" /\ CallIsSound(t) /\ mine # NoTemp /\ slices' = slices
      /\ jvm' = [jvm EXCEPT ![t] = r]
  BY CallIsTyped DEF DeleteTemp, At, CallIsSound, StageFollows, Moves
<1>2. /\ DOMAIN temps' = DOMAIN temps \ {mine}
      /\ temps' \in [DOMAIN temps' -> Seq(Rows)]
      /\ \A p \in DOMAIN temps' : temps'[p] = temps[p]
  BY DEF DeleteTemp, TempsWithout, JvmInv, JvmType
<1>3. /\ r \in JvmStates /\ r.call = jvm[t].call /\ r.file = mine /\ r.shared = jvm[t].shared
      /\ r.at = "over" /\ r.answer = jvm[t].answer /\ r.acted = jvm[t].acted
      /\ r.data = jvm[t].data
  BY CallIsTyped DEF JvmStates, JvmPlaces
<1> HIDE DEF r
<1>4. jvm'[t] = r /\ JvmType' /\ OthersKeep(t)
  BY <1>1, <1>2, <1>3 DEF JvmInv, JvmType, OthersKeep
<1>5. TouchesOwn(t)
  BY <1>1, <1>2, <1>3, <1>4 DEF TouchesOwn, Stays
<1>6. CallIsSound(t)' /\ FileIsThere(t)'
  BY <1>1, <1>3, <1>4, ArgumentsStay
     DEF CallIsSound, StageFollows, EnvelopeFollows, InLibrary, ArgumentsAreRead, At,
         SliceIsFreedOnce, AnswerIsTrue, SparkGetsRows, FileIsThere
<1> QED
  BY <1>5, <1>6, OwnFileKeeps

LEMMA WriteTempKeeps ==
  ASSUME JvmInv, NEW t \in JvmThreads, WriteTemp(t)
  PROVE  JvmInv'
<1> DEFINE mine == jvm[t].file
           call == jvm[t].call
<1>1. /\ jvm[t].at = "write" /\ CallIsSound(t) /\ mine # NoTemp /\ mine \in TempPaths
      /\ slices' = slices /\ JvmType /\ jvm[t].acted /\ call.mode # "unknown"
  BY CallIsTyped DEF WriteTemp, At, CallIsSound, StageFollows, JvmStates, JvmInv
<1>2. PICK reply \in {TempAnswer(t), Failure} :
        /\ Answers(t, reply)
        /\ IF reply = Failure THEN temps' \in {temps, Holding(mine, <<>>)}
           ELSE temps' = Holding(mine, call.rows)
  <2>1. TempAnswer(t) # Failure
    BY DEF TempAnswer, Failure
  <2> QED
    BY <2>1 DEF WriteTemp
<1>3. /\ TempAnswer(t) \in Envelopes /\ TempAnswer(t).file = mine
      /\ TempAnswer(t).kind = KindOf(call) /\ EnvelopeIsTrue(call, TempAnswer(t))
  <2>1. /\ TempAnswer(t).file = mine /\ TempAnswer(t).kind = KindOf(call)
        /\ TempAnswer(t).total = Len(call.rows) /\ TempAnswer(t).rows = <<>>
    BY DEF TempAnswer, Failure
  <2>2. KindOf(call) \in AnswerKinds /\ call.rows \in Seq(Rows) /\ Len(call.rows) \in Nat
    BY CallIsTyped, InvocationFacts DEF AnswerKinds
  <2>3. TempAnswer(t) \in Envelopes
    BY <1>1, <2>2, FailureIsTyped DEF TempAnswer, Envelopes
  <2>4. IsPrefix(<<>>, call.rows)
    BY <2>2 DEF IsPrefix
  <2> QED
    BY <1>1, <2>1, <2>3, <2>4 DEF EnvelopeIsTrue
<1> DEFINE r == [jvm[t] EXCEPT !.at = "slice", !.answer = reply]
<1>4. /\ r \in JvmStates /\ r.call = call /\ r.file = mine /\ r.shared = jvm[t].shared
      /\ r.at = "slice" /\ r.answer = reply /\ r.acted = jvm[t].acted
      /\ r.data = jvm[t].data
  BY <1>3, CallIsTyped, FailureIsTyped DEF JvmStates, JvmPlaces
<1>5. jvm' = [jvm EXCEPT ![t] = r]
  BY <1>2, CallIsTyped DEF Answers
<1> HIDE DEF r
<1>6. /\ DOMAIN temps' \subseteq DOMAIN temps \cup {mine} /\ DOMAIN temps \subseteq DOMAIN temps'
      /\ temps' \in [DOMAIN temps' -> Seq(Rows)]
      /\ \A p \in DOMAIN temps \ {mine} : temps'[p] = temps[p]
      /\ reply # Failure => mine \in DOMAIN temps' /\ temps'[mine] = call.rows
  <2>1. call.rows \in Seq(Rows) /\ <<>> \in Seq(Rows)
    BY CallIsTyped, InvocationFacts
  <2>2. CASE temps' = temps /\ reply = Failure
    BY <1>1, <2>2 DEF JvmType
  <2>3. CASE temps' = Holding(mine, <<>>) /\ reply = Failure
    <3>1. /\ DOMAIN temps' = DOMAIN temps \cup {mine}
          /\ temps' \in [DOMAIN temps \cup {mine} -> Seq(Rows)]
          /\ \A p \in DOMAIN temps \ {mine} : temps'[p] = temps[p]
      BY <1>1, <2>1, <2>3, HoldingFacts
    <3> QED
      BY <2>3, <3>1
  <2>4. CASE temps' = Holding(mine, call.rows)
    <3>1. /\ DOMAIN temps' = DOMAIN temps \cup {mine}
          /\ temps' \in [DOMAIN temps \cup {mine} -> Seq(Rows)]
          /\ temps'[mine] = call.rows
          /\ \A p \in DOMAIN temps \ {mine} : temps'[p] = temps[p]
      BY <1>1, <2>1, <2>4, HoldingFacts
    <3> QED
      BY <3>1
  <2> QED
    BY <1>2, <2>2, <2>3, <2>4
<1>7. jvm'[t] = r /\ JvmType' /\ OthersKeep(t)
  BY <1>1, <1>4, <1>5, <1>6 DEF JvmType, OthersKeep
<1>8. TouchesOwn(t)
  BY <1>1, <1>4, <1>6, <1>7 DEF TouchesOwn, Stays, JvmType
<1>9. StageFollows(t)' /\ EnvelopeFollows(t)' /\ SliceIsFreedOnce(t)' /\ SparkGetsRows(t)'
  BY <1>1, <1>2, <1>3, <1>4, <1>7, FailureIsTyped
     DEF CallIsSound, StageFollows, EnvelopeFollows, InLibrary, SliceIsFreedOnce, SparkGetsRows
<1>10. ArgumentsAreRead(t)' /\ AnswerIsTrue(t)'
  BY <1>1, <1>2, <1>3, <1>4, <1>7, ArgumentsStay, FailureIsTyped
     DEF CallIsSound, ArgumentsAreRead, At, AnswerIsTrue
<1>11. FileIsThere(t)'
  BY <1>2, <1>4, <1>6, <1>7, FailureIsTyped DEF FileIsThere
<1> QED
  BY <1>8, <1>9, <1>10, <1>11, OwnFileKeeps DEF CallIsSound

LEMMA JvmStarts == JvmInit => JvmInv
<1> SUFFICES ASSUME JvmInit PROVE JvmInv
  OBVIOUS
<1>1. PICK what \in [JvmThreads -> Invocations] :
        jvm = [t \in JvmThreads |->
                 [call |-> what[t], at |-> "ready", acted |-> FALSE, file |-> NoTemp,
                  shared |-> FALSE, answer |-> Failure, data |-> Frame(<<>>, "Utf8")]]
  BY DEF JvmInit
<1>2. slices = [t \in JvmThreads |-> [made |-> 0, freed |-> 0]] /\ temps = <<>>
  BY DEF JvmInit
<1>3. \A t \in JvmThreads :
        /\ jvm[t].call \in Invocations /\ jvm[t].at = "ready" /\ jvm[t].acted = FALSE
        /\ jvm[t].file = NoTemp /\ ~jvm[t].answer.ok /\ jvm[t] \in JvmStates
  BY <1>1, FailureIsTyped DEF JvmStates, JvmPlaces, Frame, Frames
<1>4. JvmType
  <2>1. DOMAIN temps = {} /\ temps \in [{} -> Seq(Rows)]
    BY <1>2
  <2> QED
    BY <1>1, <1>2, <1>3, <2>1 DEF JvmType
<1>5. OneName /\ LeftFilesAreKnown
  BY <1>2, <1>3 DEF OneName, LeftFilesAreKnown
<1>6. ASSUME NEW t \in JvmThreads PROVE CallIsSound(t) /\ FileIsThere(t)
  BY <1>2, <1>3
     DEF CallIsSound, StageFollows, EnvelopeFollows, InLibrary, ArgumentsAreRead, At,
         SliceIsFreedOnce, AnswerIsTrue, SparkGetsRows, FileIsThere
<1> QED
  BY <1>4, <1>5, <1>6 DEF JvmInv

LEMMA JvmStays ==
  ASSUME JvmInv, UNCHANGED jvmVars
  PROVE  JvmInv'
<1>1. jvm' = jvm /\ slices' = slices /\ temps' = temps
  BY DEF jvmVars
<1>2. JvmType' /\ OneName' /\ LeftFilesAreKnown'
  BY <1>1 DEF JvmInv, JvmType, OneName, LeftFilesAreKnown
<1>3. ASSUME NEW t \in JvmThreads PROVE CallIsSound(t)' /\ FileIsThere(t)'
  BY <1>1, CallIsTyped, ArgumentsStay
     DEF JvmInv, CallIsSound, StageFollows, EnvelopeFollows, InLibrary, ArgumentsAreRead, At,
         SliceIsFreedOnce, AnswerIsTrue, SparkGetsRows, FileIsThere
<1> QED
  BY <1>2, <1>3 DEF JvmInv

(***************************************************************************)
(* The invariant holds, for every set of threads and of invocations, and   *)
(* every clock.                                                            *)
(***************************************************************************)
THEOREM JvmInvariance == JvmSpec => []JvmInv
<1>1. JvmInit => JvmInv
  BY JvmStarts
<1>2. JvmInv /\ [JvmNext]_jvmVars => JvmInv'
  <2> SUFFICES ASSUME JvmInv, JvmNext PROVE JvmInv'
    BY JvmStays
  <2>1. PICK t \in JvmThreads :
          \/ Invoke(t) \/ DecodeStrings(t) \/ ParseArguments(t) \/ Act(t) \/ ChooseTempName(t)
          \/ WriteTemp(t) \/ WriteSlice(t) \/ ReadSlice(t) \/ FreeSlice(t)
          \/ MaterializeFile(t) \/ DeleteTemp(t) \/ MaterializeDataset(t) \/ RefuseAnswer(t)
    BY DEF JvmNext
  <2>2. CASE Invoke(t) \/ DecodeStrings(t) \/ ParseArguments(t) \/ Act(t)
    BY <2>2, InvokeKeeps, DecodeStringsKeeps, ParseArgumentsKeeps, ActKeeps
  <2>3. CASE ChooseTempName(t) \/ WriteTemp(t) \/ WriteSlice(t)
    BY <2>3, ChooseTempNameKeeps, WriteTempKeeps, WriteSliceKeeps
  <2>4. CASE ReadSlice(t) \/ FreeSlice(t) \/ RefuseAnswer(t)
    BY <2>4, ReadSliceKeeps, FreeSliceKeeps, RefuseAnswerKeeps
  <2>5. CASE MaterializeFile(t) \/ DeleteTemp(t) \/ MaterializeDataset(t)
    BY <2>5, MaterializeFileKeeps, DeleteTempKeeps, MaterializeDatasetKeeps
  <2> QED
    BY <2>1, <2>2, <2>3, <2>4, <2>5
<1> QED
  BY <1>1, <1>2, PTL DEF JvmSpec

(***************************************************************************)
(* Every slice that the native side makes is freed once and not before the *)
(* host has copied it, and every temporary file that is left belongs to a  *)
(* call that is known to leave it.                                         *)
(***************************************************************************)
THEOREM NothingIsLost == JvmSpec => []NothingLeaks
<1>1. JvmInv => NothingLeaks
  BY JvmInvIsEnough
<1> QED
  BY <1>1, JvmInvariance, PTL

(***************************************************************************)
(* What the native side answers is true of the call: no library call with  *)
(* arguments it refuses, counts and rows that belong to the batch, and a   *)
(* watermark that no row of the batch is above.                            *)
(***************************************************************************)
THEOREM JvmAnswersAreTrue == JvmSpec => []JvmAnswerIsTrue
<1>1. JvmInv => JvmAnswerIsTrue
  BY JvmInvIsEnough
<1> QED
  BY <1>1, JvmInvariance, PTL

(***************************************************************************)
(* Spark gets the rows that were answered, unless another call has read    *)
(* the same clock.  Through a CSV an empty text comes as Null, the lines   *)
(* of a single column that would be blank are missing, and a Utf8 column   *)
(* is of another type where all its texts look like values of that type.   *)
(***************************************************************************)
THEOREM SparkGetsWhatWasRead == JvmSpec => []SparkGetsItsRows
<1>1. JvmInv => SparkGetsItsRows
  BY JvmInvIsEnough
<1> QED
  BY <1>1, JvmInvariance, PTL

-----------------------------------------------------------------------------
(***************************************************************************)
(* The invariant of PythonEngine.  A thread with a row works for a call    *)
(* that is running, and with an error to store for one whose callback has  *)
(* failed.  While the cell is empty each failure has a thread that waits   *)
(* to store it; afterwards only the threads that were past the look into   *)
(* the cell can fail, so failures never outnumber threads.                 *)
(***************************************************************************)
ThreadPlaces == {"idle", "chunk_started", "check", "attach", "call", "lock", "drop",
                 "resume", "chunk_finished"}
CallerPlaces == {"ready", "method", "run_started", "running", "run_finished",
                 "attaching", "returned", "raised"}
ThreadStates == [at : ThreadPlaces, call : PyCalls \cup {Nobody}, row : Nat]

PyType ==
  /\ calls \in [PyCalls -> PyCall] /\ caller \in [PyCalls -> CallerPlaces]
  /\ thread \in [Threads -> ThreadStates]
  /\ err \in [PyCalls -> Nat] /\ failing \in [PyCalls -> SUBSET Nat]
  /\ made = [c \in PyCalls |-> made[c]]
  /\ \A c \in PyCalls : DOMAIN made[c] \subseteq RowsOfCall(c)

Working(c, places) == {t \in Threads : thread[t].call = c /\ thread[t].at \in places}
Storing(c) == Working(c, {"lock"})
Calling(c) == Working(c, {"attach", "call"})

Works(t) ==
  \/ thread[t] = AtRest
  \/ /\ thread[t].at # "idle" /\ thread[t].call \in PyCalls
     /\ thread[t].row \in RowsOfCall(thread[t].call) /\ caller[thread[t].call] = "running"
     /\ thread[t].at \in {"lock", "drop", "resume"} =>
          thread[t].row \in failing[thread[t].call]
     /\ thread[t].at \in {"drop", "resume"} => err[thread[t].call] # 0

Ends(c) ==
  /\ caller[c] \in {"run_finished", "attaching"} => DOMAIN made[c] = RowsOfCall(c)
  /\ caller[c] = "returned" /\ calls[c].kind # "reduce" =>
       DOMAIN made[c] = RowsOfCall(c) /\ err[c] = 0
  /\ caller[c] = "raised" => err[c] # 0

Makes(c) ==
  /\ err[c] = 0 => \A i \in DOMAIN made[c] :
                     calls[c].rows[i] # "fails" /\ made[c][i] = calls[c].rows[i]
  /\ err[c] # 0 => err[c] \in failing[c]

Counts(c) ==
  /\ IsFiniteSet(failing[c])
  /\ err[c] = 0 => Cardinality(failing[c]) <= Cardinality(Storing(c))
  /\ err[c] # 0 => Cardinality(failing[c]) + Cardinality(Calling(c)) <= Cardinality(Threads)

PyInv == /\ PyType /\ \A t \in Threads : Works(t)
         /\ \A c \in PyCalls : Ends(c) /\ Makes(c) /\ Counts(c)

PySpecification == PyInit /\ [][PyNext]_pyVars

-----------------------------------------------------------------------------
(* How many callbacks fail                                                 *)

LEMMA WorkingFacts ==
  ASSUME NEW c, NEW places
  PROVE  /\ IsFiniteSet(Working(c, places)) /\ IsFiniteSet(Threads)
         /\ Cardinality(Working(c, places)) \in Nat /\ Cardinality(Threads) \in Nat
         /\ Cardinality(Working(c, places)) <= Cardinality(Threads)
<1>1. Working(c, places) \subseteq Threads /\ IsFiniteSet(Threads)
  BY PythonsAssumption DEF Working
<1> QED
  BY <1>1, FS_Subset, FS_CardinalityType

LEMMA StoringAndCalling ==
  ASSUME NEW c
  PROVE  Cardinality(Storing(c)) + Cardinality(Calling(c)) <= Cardinality(Threads)
<1>1. /\ IsFiniteSet(Storing(c)) /\ IsFiniteSet(Calling(c)) /\ IsFiniteSet(Threads)
      /\ Cardinality(Storing(c)) \in Nat /\ Cardinality(Calling(c)) \in Nat
      /\ Cardinality(Threads) \in Nat
  BY WorkingFacts DEF Storing, Calling
<1>2. Storing(c) \cap Calling(c) = {} /\ Storing(c) \cup Calling(c) \subseteq Threads
  BY DEF Storing, Calling, Working
<1>3. IsFiniteSet(Storing(c) \cup Calling(c))
      /\ Cardinality(Storing(c) \cup Calling(c)) <= Cardinality(Threads)
  BY <1>1, <1>2, FS_Subset
<1>4. Cardinality(Storing(c) \cup Calling(c))
        = Cardinality(Storing(c)) + Cardinality(Calling(c))
          - Cardinality(Storing(c) \cap Calling(c))
  BY <1>1, FS_Union
<1>5. Cardinality(Storing(c) \cap Calling(c)) = 0
  BY <1>2, FS_EmptySet
<1> QED
  BY <1>1, <1>3, <1>4, <1>5

LEMMA PyInvIsEnough == PyInv => PythonAnswerIsTrue
<1> SUFFICES ASSUME PyInv, NEW c \in PyCalls
             PROVE  /\ caller[c] = "returned" /\ calls[c].kind # "reduce" =>
                         \A i \in RowsOfCall(c) : calls[c].rows[i] # "fails"
                                                  /\ made[c][i] = calls[c].rows[i]
                    /\ caller[c] = "raised" => err[c] \in failing[c]
                    /\ Cardinality(failing[c]) <= Cardinality(Threads)
  BY DEF PythonAnswerIsTrue
<1>1. Ends(c) /\ Makes(c) /\ Counts(c)
  BY DEF PyInv
<1>2. Cardinality(failing[c]) <= Cardinality(Threads)
  <2>1. /\ Cardinality(failing[c]) \in Nat /\ Cardinality(Threads) \in Nat
        /\ Cardinality(Storing(c)) \in Nat /\ Cardinality(Calling(c)) \in Nat
        /\ Cardinality(Storing(c)) <= Cardinality(Threads)
    BY <1>1, FS_CardinalityType, WorkingFacts DEF Counts, Storing, Calling
  <2> QED
    BY <1>1, <2>1 DEF Counts
<1> QED
  BY <1>1, <1>2 DEF Ends, Makes

\* What a step of one thread does to the sets of threads.
LEMMA WorkingMoves ==
  ASSUME PyType, NEW t \in Threads, NEW next, thread' = [thread EXCEPT ![t] = next], NEW c
  PROVE  /\ Storing(c)' = IF next.call = c /\ next.at = "lock"
                          THEN Storing(c) \cup {t} ELSE Storing(c) \ {t}
         /\ Calling(c)' = IF next.call = c /\ next.at \in {"attach", "call"}
                          THEN Calling(c) \cup {t} ELSE Calling(c) \ {t}
<1>1. /\ thread'[t] = next
      /\ \A u \in Threads \ {t} : thread'[u] = thread[u]
  BY DEF PyType
<1> QED
  BY <1>1 DEF Storing, Calling, Working

\* A step of a thread that works for c, or will.
WorksFor(t, c, next) ==
  /\ thread[t].call \in {c, Nobody} /\ next.call \in {c, Nobody}
  /\ thread' = [thread EXCEPT ![t] = next] /\ calls' = calls /\ caller' = caller
  /\ caller[c] = "running"
  /\ err' \in [PyCalls -> Nat] /\ failing' \in [PyCalls -> SUBSET Nat]
  /\ made' = [d \in PyCalls |-> made'[d]] /\ DOMAIN made'[c] \subseteq RowsOfCall(c)
  /\ \A d \in PyCalls \ {c} :
       made'[d] = made[d] /\ err'[d] = err[d] /\ failing'[d] = failing[d]
  /\ failing[c] \subseteq failing'[c] /\ (err[c] # 0 => err'[c] # 0)

LEMMA ThreadKeeps ==
  ASSUME PyInv, NEW t \in Threads, NEW c \in PyCalls, NEW next \in ThreadStates,
         WorksFor(t, c, next), Works(t)', Makes(c)', Counts(c)'
  PROVE  PyInv'
<1>1. /\ thread' = [thread EXCEPT ![t] = next] /\ calls' = calls /\ caller' = caller
      /\ thread[t].call \in {c, Nobody} /\ next.call \in {c, Nobody} /\ Nobody \notin PyCalls
      /\ PyType /\ thread'[t] = next
      /\ \A u \in Threads \ {t} : thread'[u] = thread[u]
  BY PythonsAssumption DEF WorksFor, PyInv, PyType
<1>2. \A d \in PyCalls \ {c} :
        made'[d] = made[d] /\ err'[d] = err[d] /\ failing'[d] = failing[d]
  BY DEF WorksFor
<1>3. PyType'
  <2>1. thread' \in [Threads -> ThreadStates]
    BY <1>1 DEF PyType
  <2>2. \A d \in PyCalls : DOMAIN made'[d] \subseteq RowsOfCall(d)'
    <3>1. \A d \in PyCalls : RowsOfCall(d)' = RowsOfCall(d)
      BY <1>1 DEF RowsOfCall
    <3> QED
      BY <1>1, <1>2, <3>1 DEF WorksFor, PyType
  <2> QED
    BY <1>1, <2>1, <2>2 DEF PyType, WorksFor
<1>4. ASSUME NEW u \in Threads PROVE Works(u)'
  <2>1. CASE u = t
    BY <2>1
  <2>2. CASE u # t
    <3>1. Works(u) /\ thread'[u] = thread[u]
      BY <1>1, <2>2 DEF PyInv
    <3>2. CASE thread[u] = AtRest
      BY <3>1, <3>2 DEF Works, AtRest
    <3>3. CASE thread[u] # AtRest
      <4>1. PICK d \in PyCalls : d = thread[u].call
        BY <3>1, <3>3 DEF Works
      <4>2. failing[d] \subseteq failing'[d] /\ (err[d] # 0 => err'[d] # 0)
        BY <1>2, <4>1 DEF WorksFor
      <4> QED
        BY <1>1, <3>1, <3>3, <4>1, <4>2 DEF Works, RowsOfCall
    <3> QED
      BY <3>2, <3>3
  <2> QED
    BY <2>1, <2>2
<1>5. ASSUME NEW d \in PyCalls PROVE Ends(d)' /\ Makes(d)' /\ Counts(d)'
  <2>1. CASE d = c
    <3>1. Ends(d)'
      BY <1>1, <2>1 DEF WorksFor, Ends
    <3> QED
      BY <2>1, <3>1
  <2>2. CASE d # c
    <3>1. Ends(d) /\ Makes(d) /\ Counts(d)
      BY DEF PyInv
    <3>2. Working(d, {"lock"})' = Working(d, {"lock"})
          /\ Working(d, {"attach", "call"})' = Working(d, {"attach", "call"})
      BY <1>1, <2>2 DEF Working
    <3>3. Ends(d)' /\ Makes(d)'
      BY <1>1, <1>2, <2>2, <3>1 DEF Ends, Makes, RowsOfCall
    <3>4. Counts(d)'
      BY <1>1, <1>2, <2>2, <3>1, <3>2 DEF Counts, Storing, Calling
    <3> QED
      BY <3>3, <3>4
  <2> QED
    BY <2>1, <2>2
<1> QED
  BY <1>3, <1>4, <1>5 DEF PyInv

LEMMA CountsAreNumbers ==
  ASSUME PyType, NEW c \in PyCalls, IsFiniteSet(failing[c])
  PROVE  /\ Cardinality(failing[c]) \in Nat /\ Cardinality(Threads) \in Nat
         /\ IsFiniteSet(Storing(c)) /\ IsFiniteSet(Calling(c))
         /\ Cardinality(Storing(c)) \in Nat /\ Cardinality(Calling(c)) \in Nat
         /\ IsFiniteSet(Storing(c)') /\ IsFiniteSet(Calling(c)')
         /\ Cardinality(Storing(c)') \in Nat /\ Cardinality(Calling(c)') \in Nat
<1>1. Storing(c)' \subseteq Threads /\ Calling(c)' \subseteq Threads
  BY DEF Storing, Calling, Working
<1>2. IsFiniteSet(Storing(c)) /\ IsFiniteSet(Calling(c)) /\ IsFiniteSet(Threads)
  BY WorkingFacts DEF Storing, Calling
<1>3. IsFiniteSet(Storing(c)') /\ IsFiniteSet(Calling(c)')
  BY <1>1, <1>2, FS_Subset
<1> QED
  BY <1>2, <1>3, FS_CardinalityType

\* No thread begins a callback once there is an error, and none stops waiting to
\* store one while there is not.
LEMMA CountsStay ==
  ASSUME PyInv, NEW t \in Threads, NEW c \in PyCalls, NEW next \in ThreadStates,
         thread' = [thread EXCEPT ![t] = next],
         thread[t].at # "idle" => thread[t].call = c, next.at # "idle" => next.call = c,
         failing'[c] = failing[c], err'[c] = 0 <=> err[c] = 0,
         thread[t].at = "lock" => next.at = "lock" \/ err[c] # 0,
         next.at \in {"attach", "call"} => err[c] = 0 \/ thread[t].at \in {"attach", "call"}
  PROVE  Counts(c)'
<1>1. PyType /\ Counts(c)
  BY DEF PyInv
<1>2. /\ Cardinality(failing[c]) \in Nat /\ Cardinality(Threads) \in Nat
      /\ IsFiniteSet(Storing(c)) /\ IsFiniteSet(Calling(c))
      /\ Cardinality(Storing(c)) \in Nat /\ Cardinality(Calling(c)) \in Nat
      /\ IsFiniteSet(Storing(c)') /\ IsFiniteSet(Calling(c)')
      /\ Cardinality(Storing(c)') \in Nat /\ Cardinality(Calling(c)') \in Nat
  BY <1>1, CountsAreNumbers DEF Counts
<1>3. CASE err[c] = 0
  <2>1. Storing(c)' = IF next.call = c /\ next.at = "lock"
                      THEN Storing(c) \cup {t} ELSE Storing(c) \ {t}
    BY <1>1, WorkingMoves
  <2>2. Storing(c) \subseteq Storing(c)'
    BY <1>3, <2>1 DEF Storing, Working
  <2>3. Cardinality(Storing(c)) <= Cardinality(Storing(c)')
    BY <1>2, <2>2, FS_Subset
  <2> QED
    BY <1>1, <1>2, <1>3, <2>3 DEF Counts
<1>4. CASE err[c] # 0
  <2>1. Calling(c)' = IF next.call = c /\ next.at \in {"attach", "call"}
                      THEN Calling(c) \cup {t} ELSE Calling(c) \ {t}
    BY <1>1, WorkingMoves
  <2>2. Calling(c)' \subseteq Calling(c)
    BY <1>4, <2>1 DEF Calling, Working
  <2>3. Cardinality(Calling(c)') <= Cardinality(Calling(c))
    BY <1>2, <2>2, FS_Subset
  <2> QED
    BY <1>1, <1>2, <1>4, <2>3 DEF Counts
<1> QED
  BY <1>3, <1>4

\* A step that only moves a thread.
LEMMA MoveKeeps ==
  ASSUME PyInv, NEW t \in Threads, NEW c \in PyCalls, NEW next \in ThreadStates,
         thread[t].call \in {c, Nobody}, next.call \in {c, Nobody},
         thread' = [thread EXCEPT ![t] = next],
         UNCHANGED <<calls, caller, err, made, failing>>,
         caller[c] = "running", Works(t)',
         thread[t].at = "lock" => next.at = "lock" \/ err[c] # 0,
         next.at \in {"attach", "call"} => err[c] = 0 \/ thread[t].at \in {"attach", "call"}
  PROVE  PyInv'
<1>1. PyType /\ Ends(c) /\ Makes(c) /\ Counts(c) /\ Nobody \notin PyCalls /\ thread'[t] = next
  BY PythonsAssumption DEF PyInv, PyType
<1>2. WorksFor(t, c, next)
  BY <1>1 DEF PyType, WorksFor
<1>3. Makes(c)'
  BY <1>1 DEF Makes
<1>4. /\ thread[t].at # "idle" => thread[t].call = c
      /\ next.at # "idle" => next.call = c
  BY <1>1 DEF PyInv, Works, AtRest
<1>5. Counts(c)'
  BY <1>4, CountsStay
<1> QED
  BY <1>2, <1>3, <1>5, ThreadKeeps

-----------------------------------------------------------------------------
(* The steps of a thread of the pool                                       *)

\* The thread has a row of a call that is running.
Busy(t, c) ==
  /\ thread[t].call = c /\ thread[t].row \in RowsOfCall(c) /\ caller[c] = "running"
  /\ thread[t].at \in {"lock", "drop", "resume"} => thread[t].row \in failing[c]
  /\ thread[t].at \in {"drop", "resume"} => err[c] # 0
  /\ thread[t].row \in Nat \ {0} /\ thread[t] \in ThreadStates
  /\ PyType /\ Makes(c) /\ Counts(c)

LEMMA BusyThread ==
  ASSUME PyInv, NEW t \in Threads, thread[t].at # "idle"
  PROVE  \E c \in PyCalls : Busy(t, c)
<1>1. Works(t) /\ PyType
  BY DEF PyInv
<1>2. PICK c \in PyCalls : c = thread[t].call
  BY <1>1 DEF Works, AtRest
<1>3. RowsOfCall(c) \subseteq Nat \ {0}
  <2>1. calls[c].rows \in Seq({"keep", "drop", "row", "fails"})
    BY <1>1 DEF PyType, PyCall
  <2> QED
    BY <2>1 DEF RowsOfCall
<1>4. thread[t] \in ThreadStates
  BY <1>1 DEF PyType
<1>5. Busy(t, c)
  BY <1>1, <1>2, <1>3, <1>4 DEF Works, AtRest, Busy, PyInv
<1> QED
  BY <1>5

Goes(t, next, place) ==
  /\ next \in ThreadStates /\ thread' = [thread EXCEPT ![t] = next] /\ thread'[t] = next
  /\ next.at = place /\ next.call = thread[t].call /\ next.row = thread[t].row

LEMMA GoOnIs ==
  ASSUME PyInv, NEW t \in Threads, NEW place \in ThreadPlaces, GoOn(t, place)
  PROVE  \E next \in ThreadStates : Goes(t, next, place)
<1> DEFINE next == [thread[t] EXCEPT !.at = place]
<1>1. thread \in [Threads -> ThreadStates] /\ thread[t] \in ThreadStates
  BY DEF PyInv, PyType
<1>2. thread' = [thread EXCEPT ![t] = next] /\ thread'[t] = next
  BY <1>1 DEF GoOn
<1>3. /\ next \in ThreadStates /\ next.at = place /\ next.call = thread[t].call
      /\ next.row = thread[t].row
  BY <1>1 DEF ThreadStates
<1> QED
  BY <1>2, <1>3 DEF Goes

LEMMA TakeRowKeeps ==
  ASSUME PyInv, NEW t \in Threads, TakeRow(t)
  PROVE  PyInv'
<1>1. PICK c \in PyCalls : \E i \in RowsOfCall(c) : caller[c] = "running" /\
        thread' = [thread EXCEPT ![t] = [at |-> IF calls[c].hook THEN "chunk_started" ELSE "check",
                                         call |-> c, row |-> i]]
  BY DEF TakeRow
<1>2. PICK i \in RowsOfCall(c) : caller[c] = "running" /\
        thread' = [thread EXCEPT ![t] = [at |-> IF calls[c].hook THEN "chunk_started" ELSE "check",
                                         call |-> c, row |-> i]]
  BY <1>1
<1> DEFINE next == [at |-> IF calls[c].hook THEN "chunk_started" ELSE "check",
                    call |-> c, row |-> i]
<1>3. RowsOfCall(c) \subseteq Nat /\ thread \in [Threads -> ThreadStates]
  <2>1. calls[c].rows \in Seq({"keep", "drop", "row", "fails"})
    BY DEF PyInv, PyType, PyCall
  <2> QED
    BY <2>1 DEF RowsOfCall, PyInv, PyType
<1>4. next \in ThreadStates /\ next.at \in {"chunk_started", "check"} /\ next.call = c
      /\ next.row = i
  BY <1>3 DEF ThreadStates, ThreadPlaces
<1> HIDE DEF next
<1>5. thread' = [thread EXCEPT ![t] = next] /\ thread'[t] = next
  BY <1>2, <1>3 DEF next
<1>6. /\ thread[t].at = "idle" /\ thread[t].call = Nobody
      /\ UNCHANGED <<calls, caller, err, made, failing>>
  BY DEF TakeRow, AtRest
<1>7. Works(t)'
  BY <1>2, <1>4, <1>5, <1>6 DEF Works, RowsOfCall
<1> QED
  BY <1>2, <1>4, <1>5, <1>6, <1>7, MoveKeeps

LEMMA ThreadEventKeeps ==
  ASSUME PyInv, NEW t \in Threads, ThreadEvent(t)
  PROVE  PyInv'
<1>1. thread[t].at \in {"chunk_started", "chunk_finished"}
      /\ UNCHANGED <<calls, caller, err, made, failing>>
  BY DEF ThreadEvent
<1>2. PICK c \in PyCalls : Busy(t, c)
  BY <1>1, BusyThread
<1>3. CASE thread[t].at = "chunk_started" /\ GoOn(t, "check")
  <2>1. PICK next \in ThreadStates : Goes(t, next, "check")
    BY <1>3, GoOnIs DEF ThreadPlaces
  <2>2. Works(t)'
    BY <1>1, <1>2, <2>1 DEF Works, RowsOfCall, Goes, Busy
  <2> QED
    BY <1>1, <1>2, <1>3, <2>1, <2>2, MoveKeeps DEF Goes, Busy
<1>4. CASE thread[t].at = "chunk_finished" /\ thread' = [thread EXCEPT ![t] = AtRest]
  <2>1. AtRest \in ThreadStates /\ AtRest.at = "idle" /\ AtRest.call = Nobody
    BY DEF AtRest, ThreadStates, ThreadPlaces
  <2>2. Works(t)'
    BY <1>2, <1>4 DEF Works, Busy, PyType
  <2> QED
    BY <1>1, <1>2, <1>4, <2>1, <2>2, MoveKeeps DEF Busy
<1> QED
  BY <1>3, <1>4 DEF ThreadEvent

LEMMA AttachKeeps ==
  ASSUME PyInv, NEW t \in Threads, Attach(t)
  PROVE  PyInv'
<1>1. thread[t].at = "attach" /\ UNCHANGED <<calls, caller, err, made, failing>>
  BY DEF Attach
<1>2. PICK c \in PyCalls : Busy(t, c)
  BY <1>1, BusyThread
<1>3. PICK next \in ThreadStates : Goes(t, next, "call")
  BY GoOnIs DEF Attach, ThreadPlaces
<1>4. Works(t)'
  BY <1>1, <1>2, <1>3 DEF Works, RowsOfCall, Goes, Busy
<1> QED
  BY <1>1, <1>2, <1>3, <1>4, MoveKeeps DEF Goes, Busy

LEMMA DropSwitchesKeeps ==
  ASSUME PyInv, NEW t \in Threads, DropSwitches(t)
  PROVE  PyInv'
<1>1. thread[t].at = "drop" /\ UNCHANGED <<calls, caller, err, made, failing>>
  BY DEF DropSwitches
<1>2. PICK c \in PyCalls : Busy(t, c)
  BY <1>1, BusyThread
<1>3. PICK next \in ThreadStates : Goes(t, next, "resume")
  BY GoOnIs DEF DropSwitches, ThreadPlaces
<1>4. Works(t)'
  BY <1>1, <1>2, <1>3 DEF Works, RowsOfCall, Goes, Busy
<1> QED
  BY <1>1, <1>2, <1>3, <1>4, MoveKeeps DEF Goes, Busy

\* The row of a thread has its output, and the thread no longer works on it.
Finished(t, c, next, result) ==
  /\ thread' = [thread EXCEPT ![t] = next] /\ thread'[t] = next
  /\ next.at \in {"idle", "chunk_finished"} /\ next.call \in {c, Nobody}
  /\ next.at # "idle" => next.call = c
  /\ next = AtRest \/ (next.at = "chunk_finished" /\ next.call = c /\ next.row = thread[t].row)
  /\ made' = [d \in PyCalls |-> made'[d]]
  /\ \A d \in PyCalls \ {c} : made'[d] = made[d]
  /\ DOMAIN made'[c] = DOMAIN made[c] \cup {thread[t].row}
  /\ made'[c][thread[t].row] = result
  /\ \A i \in DOMAIN made[c] \ {thread[t].row} : made'[c][i] = made[c][i]

LEMMA RowDoneIs ==
  ASSUME PyInv, NEW t \in Threads, NEW c \in PyCalls, Busy(t, c), NEW result,
         RowDone(t, result)
  PROVE  \E next \in ThreadStates : Finished(t, c, next, result)
<1>1. thread[t].call = c /\ thread \in [Threads -> ThreadStates]
      /\ made = [d \in PyCalls |-> made[d]]
  BY DEF Busy, PyInv, PyType
<1> DEFINE row == thread[t].row
           D == DOMAIN made[c] \cup {row}
           m == [i \in D |-> IF i = row THEN result ELSE made[c][i]]
<1>2. made' = [made EXCEPT ![c] = m]
  BY <1>1 DEF RowDone
<1>3. /\ DOMAIN m = D /\ m[row] = result
      /\ \A i \in DOMAIN made[c] \ {row} : m[i] = made[c][i]
  OBVIOUS
<1> HIDE DEF m
<1>4. /\ made' = [d \in PyCalls |-> made'[d]] /\ made'[c] = m
      /\ \A d \in PyCalls \ {c} : made'[d] = made[d]
  BY <1>1, <1>2
<1>5. \E next \in ThreadStates :
        /\ thread' = [thread EXCEPT ![t] = next] /\ thread'[t] = next
        /\ next.at \in {"idle", "chunk_finished"} /\ next.call \in {c, Nobody}
        /\ next.at # "idle" => next.call = c
        /\ next = AtRest \/ (next.at = "chunk_finished" /\ next.call = c /\ next.row = row)
  <2>1. CASE GoOn(t, "chunk_finished")
    <3>1. PICK next \in ThreadStates : Goes(t, next, "chunk_finished")
      BY <2>1, GoOnIs DEF ThreadPlaces
    <3> QED
      BY <1>1, <3>1 DEF Goes
  <2>2. CASE thread' = [thread EXCEPT ![t] = AtRest]
    <3>1. AtRest \in ThreadStates /\ AtRest.at = "idle" /\ AtRest.call = Nobody
      BY DEF AtRest, ThreadStates, ThreadPlaces
    <3> QED
      BY <1>1, <2>2, <3>1
  <2> QED
    BY <2>1, <2>2 DEF RowDone
<1> QED
  BY <1>3, <1>4, <1>5 DEF Finished

\* A row is finished, and at most the cell has changed.
LEMMA FinishKeeps ==
  ASSUME PyInv, NEW t \in Threads, NEW c \in PyCalls, Busy(t, c),
         NEW next \in ThreadStates, NEW result, Finished(t, c, next, result),
         UNCHANGED <<calls, caller, failing>>, err' \in [PyCalls -> Nat],
         \A d \in PyCalls \ {c} : err'[d] = err[d], err[c] # 0 => err'[c] # 0,
         Makes(c)', Counts(c)'
  PROVE  PyInv'
<1>1. WorksFor(t, c, next)
  <2>1. DOMAIN made'[c] \subseteq RowsOfCall(c)
    BY DEF Finished, Busy, PyType
  <2> QED
    BY <2>1 DEF WorksFor, Finished, Busy, PyType
<1>2. Works(t)'
  BY DEF Works, Finished, Busy, RowsOfCall
<1> QED
  BY <1>1, <1>2, ThreadKeeps

LEMMA CheckCellKeeps ==
  ASSUME PyInv, NEW t \in Threads, CheckCell(t)
  PROVE  PyInv'
<1>1. thread[t].at = "check" /\ UNCHANGED <<calls, caller, err, failing>>
  BY DEF CheckCell
<1>2. PICK c \in PyCalls : Busy(t, c)
  BY <1>1, BusyThread
<1>3. thread[t].call = c /\ PyType
  BY <1>2 DEF Busy
<1>4. CASE err[c] # 0
  <2>1. PICK next \in ThreadStates : Finished(t, c, next, Substitute(c))
    BY <1>2, <1>3, <1>4, RowDoneIs DEF CheckCell
  <2>2. Makes(c)'
    BY <1>1, <1>2, <1>4 DEF Makes, Busy
  <2>3. Counts(c)'
    BY <1>1, <1>2, <1>3, <2>1, CountsStay DEF Finished
  <2> QED
    BY <1>1, <1>2, <1>3, <2>1, <2>2, <2>3, FinishKeeps DEF PyType
<1>5. CASE err[c] = 0
  <2>1. PICK next \in ThreadStates : Goes(t, next, "attach")
    BY <1>3, <1>5, GoOnIs DEF CheckCell, ThreadPlaces
  <2>2. made' = made
    BY <1>3, <1>5 DEF CheckCell
  <2>3. Works(t)'
    BY <1>1, <1>2, <2>1 DEF Works, RowsOfCall, Goes, Busy
  <2> QED
    BY <1>1, <1>2, <1>5, <2>1, <2>2, <2>3, MoveKeeps DEF Goes, Busy
<1> QED
  BY <1>4, <1>5

LEMMA CallBackKeeps ==
  ASSUME PyInv, NEW t \in Threads, CallBack(t)
  PROVE  PyInv'
<1>1. thread[t].at = "call" /\ UNCHANGED <<calls, caller, err>>
  BY DEF CallBack
<1>2. PICK c \in PyCalls : Busy(t, c)
  BY <1>1, BusyThread
<1> DEFINE row == thread[t].row
           outcome == calls[c].rows[row]
<1>3. thread[t].call = c /\ PyType /\ err \in [PyCalls -> Nat]
  BY <1>2 DEF Busy, PyType
<1>4. CASE outcome # "fails" /\ RowDone(t, outcome) /\ failing' = failing
  <2>1. PICK next \in ThreadStates : Finished(t, c, next, outcome)
    BY <1>2, <1>4, RowDoneIs
  <2>2. Makes(c)'
    BY <1>1, <1>2, <1>4, <2>1 DEF Makes, Busy, Finished
  <2>3. Counts(c)'
    BY <1>1, <1>2, <1>3, <1>4, <2>1, CountsStay DEF Finished
  <2> QED
    BY <1>1, <1>2, <1>3, <1>4, <2>1, <2>2, <2>3, FinishKeeps
<1>5. CASE /\ outcome = "fails" /\ GoOn(t, "lock") /\ made' = made
           /\ failing' = [failing EXCEPT ![c] = @ \cup {row}]
  <2>1. PICK next \in ThreadStates : Goes(t, next, "lock")
    BY <1>5, GoOnIs DEF ThreadPlaces
  <2>2. /\ failing'[c] = failing[c] \cup {row} /\ failing' \in [PyCalls -> SUBSET Nat]
        /\ \A d \in PyCalls \ {c} : failing'[d] = failing[d]
    BY <1>2, <1>3, <1>5 DEF PyType, Busy
  <2>3. Works(t)'
    BY <1>1, <1>2, <2>1, <2>2 DEF Works, RowsOfCall, Goes, Busy
  <2>4. Makes(c)'
    BY <1>1, <1>2, <1>5, <2>2 DEF Makes, Busy
  <2>5. WorksFor(t, c, next)
    BY <1>1, <1>2, <1>3, <1>5, <2>1, <2>2 DEF WorksFor, Goes, Busy, PyType
  <2>6. Counts(c)'
    <3>1. /\ Storing(c)' = Storing(c) \cup {t} /\ Calling(c)' = Calling(c) \ {t}
          /\ t \notin Storing(c) /\ t \in Calling(c)
      BY <1>1, <1>3, <2>1, WorkingMoves DEF Goes, Storing, Calling, Working
    <3>2. /\ IsFiniteSet(failing[c]) /\ Cardinality(failing[c]) \in Nat
          /\ Cardinality(Threads) \in Nat
          /\ IsFiniteSet(Storing(c)) /\ IsFiniteSet(Calling(c))
          /\ Cardinality(Storing(c)) \in Nat /\ Cardinality(Calling(c)) \in Nat
      BY <1>2, <1>3, CountsAreNumbers DEF Busy, Counts
    <3>3. /\ IsFiniteSet(failing'[c]) /\ Cardinality(failing'[c]) \in Nat
          /\ Cardinality(failing'[c]) <= Cardinality(failing[c]) + 1
      <4> DEFINE F == failing[c]
                 G == F \cup {row}
      <4>1. /\ IsFiniteSet(G)
            /\ Cardinality(G) = Cardinality(F) \/ Cardinality(G) = Cardinality(F) + 1
        <5> HIDE DEF F, row
        <5> QED
          BY <3>2, FS_AddElement DEF F
      <4>2. Cardinality(F) \in Nat /\ failing'[c] = G
        BY <2>2, <3>2
      <4> HIDE DEF F, G
      <4> QED
        BY <4>1, <4>2, FS_CardinalityType DEF F
    <3>4. Cardinality(Storing(c)') = Cardinality(Storing(c)) + 1
      BY <3>1, <3>2, FS_AddElement
    <3>5. Cardinality(Calling(c)') = Cardinality(Calling(c)) - 1
      BY <3>1, <3>2, FS_RemoveElement
    <3> QED
      BY <1>1, <1>2, <3>2, <3>3, <3>4, <3>5 DEF Counts, Busy
  <2> QED
    BY <2>3, <2>4, <2>5, <2>6, ThreadKeeps
<1> QED
  BY <1>3, <1>4, <1>5 DEF CallBack

LEMMA StoreErrorKeeps ==
  ASSUME PyInv, NEW t \in Threads, StoreError(t)
  PROVE  PyInv'
<1>1. thread[t].at = "lock" /\ UNCHANGED <<calls, caller, failing>>
  BY DEF StoreError
<1>2. PICK c \in PyCalls : Busy(t, c)
  BY <1>1, BusyThread
<1> DEFINE row == thread[t].row
<1>3. /\ thread[t].call = c /\ PyType /\ err \in [PyCalls -> Nat] /\ row \in Nat \ {0}
      /\ row \in failing[c]
  BY <1>1, <1>2 DEF Busy, PyType
<1>4. CASE err[c] = 0
  <2>1. PICK next \in ThreadStates : Finished(t, c, next, Substitute(c))
    BY <1>2, <1>3, <1>4, RowDoneIs DEF StoreError
  <2>2. err' = [err EXCEPT ![c] = row]
    BY <1>3, <1>4 DEF StoreError, Stored
  <2>3. /\ err' \in [PyCalls -> Nat] /\ err'[c] = row
        /\ \A d \in PyCalls \ {c} : err'[d] = err[d]
    BY <1>3, <2>2
  <2>4. Makes(c)'
    BY <1>1, <1>3, <2>3 DEF Makes
  <2>5. Counts(c)'
    <3>1. Calling(c)' = Calling(c)
      <4>1. Calling(c)' = Calling(c) \ {t} /\ t \notin Calling(c)
        BY <1>1, <1>3, <2>1, WorkingMoves DEF Finished, Calling, Working
      <4> QED
        BY <4>1
    <3>2. /\ IsFiniteSet(failing[c]) /\ Cardinality(failing[c]) \in Nat
          /\ Cardinality(Threads) \in Nat
          /\ Cardinality(Storing(c)) \in Nat /\ Cardinality(Calling(c)) \in Nat
      BY <1>2, <1>3, CountsAreNumbers DEF Busy, Counts
    <3>3. Cardinality(failing[c]) <= Cardinality(Storing(c))
      BY <1>2, <1>4 DEF Busy, Counts
    <3>4. Cardinality(Storing(c)) + Cardinality(Calling(c)) <= Cardinality(Threads)
      BY StoringAndCalling
    <3> QED
      BY <1>1, <1>3, <2>3, <3>1, <3>2, <3>3, <3>4 DEF Counts
  <2> QED
    BY <1>1, <1>2, <1>3, <1>4, <2>1, <2>3, <2>4, <2>5, FinishKeeps
<1>5. CASE err[c] # 0
  <2>1. PICK next \in ThreadStates : Goes(t, next, "drop")
    BY <1>3, <1>5, GoOnIs DEF StoreError, ThreadPlaces
  <2>2. made' = made /\ err' = err
    BY <1>3, <1>5 DEF StoreError
  <2>3. Works(t)'
    BY <1>1, <1>2, <1>5, <2>1, <2>2 DEF Works, RowsOfCall, Goes, Busy
  <2> QED
    BY <1>1, <1>2, <1>5, <2>1, <2>2, <2>3, MoveKeeps DEF Goes, Busy
<1> QED
  BY <1>4, <1>5

LEMMA ReplaceErrorKeeps ==
  ASSUME PyInv, NEW t \in Threads, ReplaceError(t)
  PROVE  PyInv'
<1>1. thread[t].at \in {"drop", "resume"} /\ UNCHANGED <<calls, caller, failing>>
  BY DEF ReplaceError
<1>2. PICK c \in PyCalls : Busy(t, c)
  BY <1>1, BusyThread
<1> DEFINE row == thread[t].row
<1>3. /\ thread[t].call = c /\ PyType /\ err \in [PyCalls -> Nat] /\ row \in Nat \ {0}
      /\ row \in failing[c] /\ err[c] # 0
  BY <1>1, <1>2 DEF Busy, PyType
<1>4. PICK next \in ThreadStates : Finished(t, c, next, Substitute(c))
  BY <1>2, <1>3, RowDoneIs DEF ReplaceError
<1>5. err' = [err EXCEPT ![c] = row]
  BY <1>3 DEF ReplaceError, Stored
<1>6. /\ err' \in [PyCalls -> Nat] /\ err'[c] = row
      /\ \A d \in PyCalls \ {c} : err'[d] = err[d]
  BY <1>3, <1>5
<1>7. Makes(c)'
  BY <1>1, <1>3, <1>6 DEF Makes
<1>8. Counts(c)'
  BY <1>1, <1>3, <1>4, <1>6, CountsStay DEF Finished
<1> QED
  BY <1>1, <1>2, <1>3, <1>4, <1>6, <1>7, <1>8, FinishKeeps

-----------------------------------------------------------------------------
(* The steps of a thread that calls                                        *)

LEMMA CallerKeeps ==
  ASSUME PyInv, NEW c \in PyCalls, NEW place \in CallerPlaces,
         caller' = [caller EXCEPT ![c] = place],
         UNCHANGED <<calls, thread, err, made, failing>>,
         caller[c] = "running" => \A t \in Threads : thread[t].call # c,
         Ends(c)'
  PROVE  PyInv'
<1>1. PyType /\ caller'[c] = place /\ \A d \in PyCalls \ {c} : caller'[d] = caller[d]
  BY DEF PyInv, PyType
<1>2. PyType'
  BY <1>1 DEF PyType, RowsOfCall
<1>3. ASSUME NEW t \in Threads PROVE Works(t)'
  BY <1>1 DEF PyInv, Works, RowsOfCall
<1>4. ASSUME NEW d \in PyCalls PROVE Ends(d)' /\ Makes(d)' /\ Counts(d)'
  <2>1. Makes(d)' /\ Counts(d)'
    BY DEF PyInv, Makes, Counts, Storing, Calling, Working
  <2>2. CASE d # c
    BY <1>1, <2>1, <2>2 DEF PyInv, Ends, RowsOfCall
  <2> QED
    BY <2>1, <2>2
<1> QED
  BY <1>2, <1>3, <1>4 DEF PyInv

LEMMA CallerStepKeeps ==
  ASSUME PyInv, NEW c \in PyCalls, CallMethod(c) \/ CallerStep(c)
  PROVE  PyInv'
<1>1. /\ UNCHANGED <<calls, thread, err, made, failing>>
      /\ caller \in [PyCalls -> CallerPlaces] /\ Ends(c)
  BY DEF CallMethod, CallerStep, Detach, CallerEvent, EngineReturns, Return, ReduceInPlace,
         PyInv, PyType
<1>2. CASE CallMethod(c) \/ Detach(c)
  <2>1. PICK place \in {"method", "run_started", "running"} :
          caller[c] \in {"ready", "method"} /\ caller' = [caller EXCEPT ![c] = place]
    BY <1>2 DEF CallMethod, Detach
  <2>2. Ends(c)'
    BY <1>1, <2>1 DEF Ends
  <2> QED
    BY <1>1, <2>1, <2>2, CallerKeeps DEF CallerPlaces
<1>3. CASE CallerEvent(c)
  <2>1. PICK place \in {"running", "attaching"} :
          /\ caller[c] \in {"run_started", "run_finished"}
          /\ caller' = [caller EXCEPT ![c] = place]
          /\ place = "attaching" => caller[c] = "run_finished"
    BY <1>1, <1>3 DEF CallerEvent
  <2>2. Ends(c)'
    BY <1>1, <2>1 DEF Ends, RowsOfCall
  <2> QED
    BY <1>1, <2>1, <2>2, CallerKeeps DEF CallerPlaces
<1>4. CASE EngineReturns(c)
  <2>1. PICK place \in {"run_finished", "attaching"} :
          caller' = [caller EXCEPT ![c] = place]
    BY <1>4 DEF EngineReturns
  <2>2. DOMAIN made[c] = RowsOfCall(c) /\ \A t \in Threads : thread[t].call # c
    BY <1>4 DEF EngineReturns
  <2>3. Ends(c)'
    BY <1>1, <2>1, <2>2 DEF Ends, RowsOfCall
  <2> QED
    BY <1>1, <2>1, <2>2, <2>3, CallerKeeps DEF CallerPlaces
<1>5. CASE Return(c)
  <2>1. PICK place \in {"raised", "returned"} :
          /\ caller[c] = "attaching" /\ caller' = [caller EXCEPT ![c] = place]
          /\ (place = "raised" <=> err[c] # 0)
    BY <1>5 DEF Return
  <2>2. Ends(c)'
    BY <1>1, <2>1 DEF Ends, RowsOfCall
  <2> QED
    BY <1>1, <2>1, <2>2, CallerKeeps DEF CallerPlaces
<1>6. CASE ReduceInPlace(c)
  <2>1. /\ caller[c] = "method" /\ caller' = [caller EXCEPT ![c] = "returned"]
        /\ calls[c].kind = "reduce"
    BY <1>6 DEF ReduceInPlace
  <2>2. Ends(c)'
    BY <1>1, <2>1 DEF Ends
  <2> QED
    BY <1>1, <2>1, <2>2, CallerKeeps DEF CallerPlaces
<1> QED
  BY <1>2, <1>3, <1>4, <1>5, <1>6 DEF CallerStep

LEMMA PyStarts == PyInit => PyInv
<1> SUFFICES ASSUME PyInit PROVE PyInv
  OBVIOUS
<1>1. PyType
  <2>1. calls \in [PyCalls -> PyCall]
    BY PythonsAssumption DEF PyInit
  <2>2. AtRest \in ThreadStates
    BY DEF AtRest, ThreadStates, ThreadPlaces
  <2>3. \A c \in PyCalls : DOMAIN made[c] = {}
    BY DEF PyInit
  <2> QED
    BY <2>1, <2>2, <2>3 DEF PyInit, PyType, CallerPlaces
<1>2. \A t \in Threads : Works(t)
  BY DEF PyInit, Works
<1>3. ASSUME NEW c \in PyCalls PROVE Ends(c) /\ Makes(c) /\ Counts(c)
  <2>1. caller[c] = "ready" /\ err[c] = 0 /\ made[c] = <<>> /\ failing[c] = {}
    BY DEF PyInit
  <2>2. Cardinality(Storing(c)) \in Nat
    BY WorkingFacts DEF Storing
  <2>3. IsFiniteSet(failing[c]) /\ Cardinality(failing[c]) = 0
    BY <2>1, FS_EmptySet
  <2> QED
    BY <2>1, <2>2, <2>3 DEF Ends, Makes, Counts
<1> QED
  BY <1>1, <1>2, <1>3 DEF PyInv

LEMMA PyStays ==
  ASSUME PyInv, UNCHANGED pyVars
  PROVE  PyInv'
BY DEF pyVars, PyInv, PyType, Works, RowsOfCall, Ends, Makes, Counts, Storing, Calling, Working

(***************************************************************************)
(* The invariant holds, for every set of calls, every pool and whatever    *)
(* the callbacks do.                                                       *)
(***************************************************************************)
THEOREM PyInvariance == PySpecification => []PyInv
<1>1. PyInit => PyInv
  BY PyStarts
<1>2. PyInv /\ [PyNext]_pyVars => PyInv'
  <2> SUFFICES ASSUME PyInv, PyNext PROVE PyInv'
    BY PyStays
  <2>1. CASE \E c \in PyCalls : CallMethod(c) \/ CallerStep(c)
    BY <2>1, CallerStepKeeps
  <2>2. CASE \E t \in Threads : ThreadStep(t) \/ DropSwitches(t)
    <3>1. PICK t \in Threads : ThreadStep(t) \/ DropSwitches(t)
      BY <2>2
    <3> QED
      BY <3>1, TakeRowKeeps, ThreadEventKeeps, CheckCellKeeps, AttachKeeps, CallBackKeeps,
         StoreErrorKeeps, ReplaceErrorKeeps, DropSwitchesKeeps DEF ThreadStep
  <2> QED
    BY <2>1, <2>2 DEF PyNext
<1> QED
  BY <1>1, <1>2, PTL DEF PySpecification

(***************************************************************************)
(* A call of the Python package returns what its callbacks made, and only  *)
(* if none has failed; it raises the error of a row of its own; and no     *)
(* more callbacks fail than the pool has threads.                          *)
(***************************************************************************)
THEOREM PythonAnswersAreTrue == PySpecification => []PythonAnswerIsTrue
<1>1. PyInv => PythonAnswerIsTrue
  BY PyInvIsEnough
<1> QED
  BY <1>1, PyInvariance, PTL
=============================================================================
