--------------------------- MODULE TemporaryFiles ---------------------------
(***************************************************************************)
(* src/ingestion/file_transfer.rs and object_store.rs: every call makes a  *)
(* temporary file whose name is a clock reading, fills it from a remote    *)
(* file or a dataset, reads it back, and removes it.  Calls run at the     *)
(* same time and share one directory.  The network, the file system and    *)
(* the clock are outside the repository; the file system is POSIX: a file  *)
(* that is opened stays after its name is removed.                         *)
(***************************************************************************)
EXTENDS Naturals, Sequences, SequencesExt, FiniteSets

CONSTANTS
  Calls,     \* calls of the process, each made once
  Requests,  \* what a call may be: see RequestsAssumption
  Stamps,    \* readings of the clock; two calls may read the same
  MaxParts   \* the longest source, in pieces that are written one by one

\* The format is what the options or the extension of the source say; an
\* unknown one also stands for a URI that does not parse.
Kinds == {"sftp", "ftp", "object", "export"}
Formats == {"csv", "json", "parquet", "xml", "excel", "unknown"}
ASSUME RequestsAssumption ==
  /\ Requests \subseteq [kind: Kinds, format: Formats, size: 1..MaxParts]
  /\ \A q \in Requests : q.kind = "export" => q.format = "parquet"
  /\ MaxParts \in Nat

VARIABLES
  request,   \* what each call was asked
  at,        \* where each call is
  name,      \* its temporary path
  copied,    \* how much of its source it has written
  got,       \* what it has read back
  dir,       \* the temporary directory: the file each name stands for
  file,      \* the content of each file; a file is known by its first creator
  open,      \* the file each call has open or has written
  shared     \* history: calls whose name another call had at the same time

filesVars == <<request, at, name, copied, got, dir, file, open, shared>>

NoName == <<>>
NoFile == "no file"
Hole == <<>>
ASSUME CallsAssumption == NoFile \notin Calls

\* The rows or bytes of a call's own source.
Size(c) == request[c].size
Source(c) == [i \in 1..Size(c) |-> <<c, i>>]

\* The two modules have a prefix each; the suffix is the format.
Prefix(kind) == IF kind \in {"sftp", "ftp"} THEN "rdp_ft_dl_" ELSE "rdp_os_dl_"
Path(c, stamp) == <<Prefix(request[c].kind), stamp, request[c].format>>
Paths == {"rdp_ft_dl_", "rdp_os_dl_"} \X Stamps \X Formats

FilesInit ==
  /\ request \in [Calls -> Requests]
  /\ at = [c \in Calls |-> "ready"]
  /\ name = [c \in Calls |-> NoName]
  /\ copied = [c \in Calls |-> 0]
  /\ got = [c \in Calls |-> <<>>]
  /\ dir = [p \in Paths |-> NoFile]
  /\ file = [c \in Calls |-> <<>>]
  /\ open = [c \in Calls |-> NoFile]
  /\ shared = {}

\* Between the choice of its name and its last use of it.
Using == {c \in Calls : at[c] \in {"connect", "create", "write", "read", "remove"}}
-----------------------------------------------------------------------------
\* `?`: the call returns its error and leaves its file where it is.
Fail(c) ==
  /\ at' = [at EXCEPT ![c] = "failed"]
  /\ UNCHANGED <<request, name, copied, got, dir, file, open, shared>>

\* The format is looked up before anything else happens.
Refuse(c) ==
  /\ at[c] = "ready"
  /\ request[c].format \in {"excel", "unknown"}
  /\ Fail(c)

\* temp_download_path.
ChooseName(c) ==
  /\ at[c] = "ready"
  /\ request[c].format \notin {"excel", "unknown"}
  /\ \E stamp \in Stamps :
       /\ name' = [name EXCEPT ![c] = Path(c, stamp)]
       /\ LET twins == {d \in Using : name[d] = Path(c, stamp)}
          IN  shared' = shared \cup IF twins = {} THEN {} ELSE {c} \cup twins
  /\ at' = [at EXCEPT ![c] = IF request[c].kind = "export" THEN "create"
                             ELSE "connect"]
  /\ UNCHANGED <<request, copied, got, dir, file, open>>

\* SFTP opens the remote file; FTP and object stores fetch all of it.
Connect(c) ==
  /\ at[c] = "connect"
  /\ at' = [at EXCEPT ![c] = "create"]
  /\ UNCHANGED <<request, name, copied, got, dir, file, open, shared>>

ConnectFails(c) == at[c] = "connect" /\ Fail(c)

\* Mutant: a file that is there is written over, not cut.
Untouched(content) == content

Truncated(content) == <<>>

\* File::create: a new file, or the one of that name, truncated.
CreateFile(c) ==
  /\ at[c] = "create"
  /\ LET f == IF dir[name[c]] = NoFile THEN c ELSE dir[name[c]]
     IN  /\ dir' = [dir EXCEPT ![name[c]] = f]
         /\ open' = [open EXCEPT ![c] = f]
         /\ file' = [file EXCEPT ![f] = Truncated(@)]
  /\ at' = [at EXCEPT ![c] = "write"]
  /\ UNCHANGED <<request, name, copied, got, shared>>

CreateFails(c) == at[c] = "create" /\ Fail(c)

\* Writes go to the place the writer has reached in its open file.
WrittenAt(content, i, part) ==
  [j \in 1..(IF i > Len(content) THEN i ELSE Len(content)) |->
     IF j = i THEN part ELSE IF j <= Len(content) THEN content[j] ELSE Hole]

WritePart(c) ==
  /\ at[c] = "write" /\ copied[c] < Size(c)
  /\ LET i == copied[c] + 1
     IN  /\ file' = [file EXCEPT ![open[c]] = WrittenAt(@, i, Source(c)[i])]
         /\ copied' = [copied EXCEPT ![c] = i]
  /\ UNCHANGED <<request, at, name, got, dir, open, shared>>

WriteFails(c) == at[c] = "write" /\ copied[c] < Size(c) /\ Fail(c)

Written(c) ==
  /\ at[c] = "write" /\ copied[c] = Size(c)
  /\ at' = [at EXCEPT ![c] = "read"]
  /\ UNCHANGED <<request, name, copied, got, dir, file, open, shared>>

\* ingest_from_path, or fs::read for an export: by name.  A Parquet file ends
\* with a footer; the text formats may be shorter.
Readable(c, content) ==
  request[c].kind # "export" /\ request[c].format = "parquet" =>
    content # <<>> /\ Last(content) \in {<<d, Size(d)>> : d \in Calls}

ReadBack(c) ==
  /\ at[c] = "read"
  /\ dir[name[c]] # NoFile
  /\ Readable(c, file[dir[name[c]]])
  /\ got' = [got EXCEPT ![c] = file[dir[name[c]]]]
  /\ at' = [at EXCEPT ![c] = "remove"]
  /\ UNCHANGED <<request, name, copied, dir, file, open, shared>>

ReadFails(c) == at[c] = "read" /\ Fail(c)

AfterRemove(c) == IF request[c].kind = "export" THEN "put" ELSE "ok"

\* Mutant: the call returns without removing its file.
Kept(names, path) == names

Without(names, path) == [names EXCEPT ![path] = NoFile]

\* remove_file by name, whose error is ignored; an export has yet to put.
RemoveFile(c) ==
  /\ at[c] = "remove"
  /\ dir' = Without(dir, name[c])
  /\ at' = [at EXCEPT ![c] = AfterRemove(c)]
  /\ UNCHANGED <<request, name, copied, got, file, open, shared>>

PutObject(c) ==
  /\ at[c] = "put"
  /\ at' = [at EXCEPT ![c] = "ok"]
  /\ UNCHANGED <<request, name, copied, got, dir, file, open, shared>>

PutFails(c) == at[c] = "put" /\ Fail(c)

\* The process dies with all its calls; calls not yet made come after.
Crash ==
  /\ \E c \in Calls : at[c] \notin {"ready", "ok", "failed"}
  /\ at' = [c \in Calls |-> IF at[c] \in {"ready", "ok", "failed"}
                            THEN at[c] ELSE "failed"]
  /\ UNCHANGED <<request, name, copied, got, dir, file, open, shared>>

FilesNext ==
  \/ \E c \in Calls :
       \/ Refuse(c) \/ ChooseName(c)
       \/ Connect(c) \/ ConnectFails(c)
       \/ CreateFile(c) \/ CreateFails(c)
       \/ WritePart(c) \/ WriteFails(c) \/ Written(c)
       \/ ReadBack(c) \/ ReadFails(c)
       \/ RemoveFile(c)
       \/ PutObject(c) \/ PutFails(c)
  \/ Crash
-----------------------------------------------------------------------------

\* A call that has read its file back got the rows or bytes of its own source,
\* all of them and in order, even when the clock gives it the name of a file
\* that a failed call or a crash has left behind: File::create truncates that.
\* Only two calls that use one name at the same time are excepted, which
\* temp_download_path does not prevent.
AnswersAreOwn ==
  \A c \in Calls \ shared :
    at[c] \in {"remove", "put", "ok"} => got[c] = Source(c)

\* A file that no call is using any more bears the name of a call that failed:
\* the calls that answer Ok, and exports that go on to their put, leave none,
\* whoever made the file that was there under their name.
LeftoversAreFailures ==
  \A p \in Paths :
    dir[p] # NoFile /\ (\A c \in Using : name[c] # p)
      => \E c \in Calls : name[c] = p /\ at[c] = "failed"
=============================================================================
