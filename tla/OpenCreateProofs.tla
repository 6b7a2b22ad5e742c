-------------------------- MODULE OpenCreateProofs --------------------------
(***************************************************************************)
(* Proofs about OpenCreate, for any number of callers and files, any sizes *)
(* and any failures: a file with bytes that nobody is about to size keeps  *)
(* its length, who opens it later maps exactly that, and open_or_create    *)
(* gives up only if a file was removed while it ran.  OpenCreateRace shows *)
(* why files that somebody is about to size are left out.                  *)
(***************************************************************************)
EXTENDS OpenCreate, TLAPS

-----------------------------------------------------------------------------
(***************************************************************************)
(* The inductive invariants                                                *)
(***************************************************************************)

(* A caller past its open or its create has a file.                        *)
FileOpen ==
  \A c \in Caller :
    /\ pc[c] \in {"stat", "set_len", "check", "mmap", "mapped"} => file[c] # 0
    /\ pc[c] = "idle" \/ want[c] \in Sizes

(* The file at the path is not among the removed ones, and a file that     *)
(* does not exist yet has no bytes.                                        *)
Existing ==
  /\ path # 0 => removed < files
  /\ \A f \in File : f > files => size[f] = 0

(* The second pass starts while there is a file at the path; if that pass  *)
(* finds none the file was removed in between, during the call.            *)
SecondPass ==
  \A c \in Caller :
    /\ since[c] <= removed
    /\ pass[c] = 2 /\ pc[c] = "open" => path # 0 \/ removed > since[c]
    /\ pass[c] = 2 /\ pc[c] \in {"create", "gave_up"} => removed > since[c]

(* open_or_create gives up in its second pass.                             *)
GaveUp == \A c \in Caller : pc[c] = "gave_up" => pass[c] = 2

IInv == TypeOK /\ FileOpen /\ Existing /\ SecondPass /\ GaveUp

(* Who opened a settled file finds it settled in every later step, and the *)
(* length it read is the file's.                                           *)
LateSettled ==
  \A c \in late :
    /\ pc[c] \in {"stat", "check", "mmap", "mapped", "remove"}
    /\ pc[c] # "remove" => file[c] \in Settled
    /\ pc[c] \in {"check", "mmap", "mapped"} => len[c] = size[file[c]]

-----------------------------------------------------------------------------
(***************************************************************************)
(* The steps                                                               *)
(***************************************************************************)

(* A call that returns forgets its locals.                                 *)
LEMMA ReturnInv ==
  ASSUME IInv, NEW c \in Caller, Return(c),
         UNCHANGED <<path, files, size, removed>>
  PROVE  IInv'
  <1>1. TypeOK'
    BY DEF IInv, TypeOK, Return, Goto
  <1>2. FileOpen' /\ SecondPass' /\ GaveUp'
    BY DEF IInv, TypeOK, FileOpen, SecondPass, GaveUp, Return, Goto
  <1> QED BY <1>1, <1>2 DEF IInv, Existing

(* An error after the file is open returns, or goes on to remove the file. *)
LEMMA FailInv ==
  ASSUME IInv, NEW c \in Caller, pc[c] # "idle", Fail(c),
         UNCHANGED <<path, files, size, removed>>
  PROVE  IInv'
  <1>1. CASE Goto(c, "remove") /\ UNCHANGED <<call, want, file, len, pass, since, late>>
    <2>1. pc' = [pc EXCEPT ![c] = "remove"]
      BY <1>1 DEF Goto
    <2>2. TypeOK'
      BY <1>1, <2>1 DEF IInv, TypeOK
    <2>3. FileOpen' /\ SecondPass' /\ GaveUp'
      BY <1>1, <2>1 DEF IInv, TypeOK, FileOpen, SecondPass, GaveUp
    <2> QED BY <2>2, <2>3 DEF IInv, Existing
  <1>2. CASE Return(c)
    BY <1>2, ReturnInv
  <1> QED BY <1>1, <1>2 DEF Fail

(* The start of a call.                                                    *)
LEMMA CallInv ==
  ASSUME IInv, NEW c \in Caller, NEW name \in {"open_or_create", "create_new", "open"},
         NEW n \in Sizes, Call(c, name, n)
  PROVE  IInv'
  <1>1. TypeOK'
    BY DEF IInv, TypeOK, Call, Goto
  <1>2. FileOpen' /\ SecondPass' /\ GaveUp'
    BY DEF IInv, TypeOK, FileOpen, SecondPass, GaveUp, Call, Goto
  <1>3. Existing'
    BY DEF IInv, Existing, Call
  <1> QED BY <1>1, <1>2, <1>3 DEF IInv

(* A step that changes nothing but the locals file and len, and goes to a  *)
(* step where its file is open.                                            *)
LEMMA LocalInv ==
  ASSUME IInv, NEW c \in Caller, NEW label \in {"stat", "set_len", "check", "mmap", "mapped"},
         Goto(c, label), UNCHANGED <<path, files, removed, call, want, pass, since>>,
         size' \in [File -> Sizes \union {0}], \A f \in File : f > files => size'[f] = 0,
         late' \subseteq Caller,
         file' \in [Caller -> 0 .. files], len' \in [Caller -> Sizes \union {0}],
         file'[c] # 0, \A d \in Caller \ {c} : file'[d] = file[d],
         want[c] \in Sizes
  PROVE  IInv'
  <1>1. pc' = [pc EXCEPT ![c] = label]
    BY DEF Goto
  <1>2. TypeOK'
    BY <1>1 DEF IInv, TypeOK
  <1>3. FileOpen'
    BY <1>1 DEF IInv, TypeOK, FileOpen
  <1>4. Existing'
    BY DEF IInv, Existing
  <1>5. SecondPass' /\ GaveUp'
    BY <1>1 DEF IInv, TypeOK, SecondPass, GaveUp
  <1> QED BY <1>2, <1>3, <1>4, <1>5 DEF IInv

(* A file that is open is one of the files created so far.                 *)
LEMMA OpenFile ==
  ASSUME IInv, NEW c \in Caller,
         pc[c] \in {"stat", "set_len", "check", "mmap", "mapped"}
  PROVE  /\ file[c] \in File /\ file[c] # 0 /\ want[c] \in Sizes
         /\ size[file[c]] \in Sizes \union {0}
  <1>1. file[c] # 0 /\ file[c] \in 0 .. files /\ want[c] \in Sizes
    BY DEF IInv, TypeOK, FileOpen
  <1>2. file[c] \in File
    BY <1>1, FilesAssumption DEF IInv, TypeOK, File
  <1> QED BY <1>1, <1>2 DEF IInv, TypeOK

(* Opening without creating: the second pass that finds no file knows that *)
(* one was removed.                                                        *)
LEMMA OpenInv ==
  ASSUME IInv, NEW c \in Caller, Open(c)
  PROVE  IInv'
  <1>1. pc[c] = "open" /\ want[c] \in Sizes /\ UNCHANGED <<path, files, size, removed>>
    BY DEF IInv, FileOpen, Open
  <1>2. CASE /\ path # 0 /\ file' = [file EXCEPT ![c] = path] /\ Goto(c, "stat")
             /\ late' = IF path \in Settled THEN late \union {c} ELSE late
             /\ UNCHANGED <<call, want, len, pass, since>>
    BY <1>1, <1>2, LocalInv DEF IInv, TypeOK, Existing
  <1>3. CASE /\ path = 0 /\ Goto(c, "create")
             /\ UNCHANGED <<call, want, file, len, pass, since, late>>
    <2>1. pc' = [pc EXCEPT ![c] = "create"]
      BY <1>3 DEF Goto
    <2>2. TypeOK'
      BY <1>1, <1>3, <2>1 DEF IInv, TypeOK
    <2>3. FileOpen' /\ GaveUp'
      BY <1>1, <1>3, <2>1 DEF IInv, TypeOK, FileOpen, GaveUp
    <2>4. SecondPass'
      BY <1>1, <1>3, <2>1 DEF IInv, TypeOK, SecondPass, Existing
    <2> QED BY <1>1, <2>2, <2>3, <2>4 DEF IInv, Existing
  <1>4. CASE Return(c)
    BY <1>1, <1>4, ReturnInv DEF IInv, TypeOK
  <1> QED BY <1>2, <1>3, <1>4 DEF Open

(* The length of the open file decides whether it is sized.                *)
LEMMA StatInv ==
  ASSUME IInv, NEW c \in Caller, Stat(c)
  PROVE  IInv'
  <1>1. /\ pc[c] = "stat" /\ UNCHANGED <<path, files, size, removed>>
        /\ file[c] # 0 /\ want[c] \in Sizes /\ size[file[c]] \in Sizes \union {0}
    BY OpenFile DEF Stat
  <1>2. CASE /\ len' = [len EXCEPT ![c] = size[file[c]]] /\ Goto(c, "check")
             /\ UNCHANGED <<call, want, file, pass, since, late>>
    BY <1>1, <1>2, LocalInv DEF IInv, TypeOK, Existing
  <1>3. CASE Goto(c, "set_len") /\ UNCHANGED <<call, want, file, len, pass, since, late>>
    BY <1>1, <1>3, LocalInv DEF IInv, TypeOK, Existing
  <1>4. CASE Return(c)
    BY <1>1, <1>4, ReturnInv DEF IInv, TypeOK
  <1> QED BY <1>2, <1>3, <1>4 DEF Stat

(* The exclusive create: a new file at an empty path, or one more pass.    *)
LEMMA CreateNewInv ==
  ASSUME IInv, NEW c \in Caller, CreateNew(c)
  PROVE  IInv'
  <1>1. pc[c] = "create" /\ want[c] \in Sizes /\ UNCHANGED <<size, removed>>
    BY DEF IInv, FileOpen, CreateNew
  <1>2. CASE path = 0 /\ NewFile(c)
    <2>1. /\ files' = files + 1 /\ path' = files + 1 /\ files' \in 0 .. MaxFiles
          /\ file' = [file EXCEPT ![c] = files + 1] /\ pc' = [pc EXCEPT ![c] = "set_len"]
          /\ UNCHANGED <<call, want, len, pass, since, late>>
      BY <1>2, FilesAssumption DEF NewFile, Goto, IInv, TypeOK
    <2>2. TypeOK'
      <3>1. file' \in [Caller -> 0 .. files']
        BY <2>1 DEF IInv, TypeOK
      <3>2. path' \in 0 .. files' /\ removed' \in 0 .. files'
        BY <1>1, <2>1 DEF IInv, TypeOK
      <3> QED BY <1>1, <2>1, <3>1, <3>2 DEF IInv, TypeOK
    <2>3. FileOpen'
      BY <1>1, <2>1 DEF IInv, TypeOK, FileOpen
    <2>4. Existing'
      BY <1>1, <2>1, FilesAssumption DEF IInv, TypeOK, Existing, File
    <2>5. SecondPass' /\ GaveUp'
      BY <1>1, <2>1 DEF IInv, TypeOK, SecondPass, GaveUp
    <2> QED BY <2>2, <2>3, <2>4, <2>5 DEF IInv
  <1>3. CASE /\ path # 0 /\ pass' = [pass EXCEPT ![c] = 2] /\ Goto(c, "open")
             /\ UNCHANGED <<path, files, call, want, file, len, since, late>>
    <2>1. pc' = [pc EXCEPT ![c] = "open"]
      BY <1>3 DEF Goto
    <2>2. TypeOK'
      BY <1>1, <1>3, <2>1 DEF IInv, TypeOK
    <2>3. FileOpen' /\ Existing'
      BY <1>1, <1>3, <2>1 DEF IInv, TypeOK, FileOpen, Existing
    <2>4. SecondPass' /\ GaveUp'
      BY <1>1, <1>3, <2>1 DEF IInv, TypeOK, SecondPass, GaveUp
    <2> QED BY <2>2, <2>3, <2>4 DEF IInv
  <1>4. CASE /\ pass[c] = 2 /\ Goto(c, "gave_up")
             /\ UNCHANGED <<path, files, call, want, file, len, pass, since, late>>
    <2>1. pc' = [pc EXCEPT ![c] = "gave_up"]
      BY <1>4 DEF Goto
    <2>2. TypeOK'
      BY <1>1, <1>4, <2>1 DEF IInv, TypeOK
    <2>3. FileOpen' /\ Existing'
      BY <1>1, <1>4, <2>1 DEF IInv, TypeOK, FileOpen, Existing
    <2>4. SecondPass' /\ GaveUp'
      BY <1>1, <1>4, <2>1 DEF IInv, TypeOK, SecondPass, GaveUp
    <2> QED BY <2>2, <2>3, <2>4 DEF IInv
  <1>5. CASE Return(c) /\ UNCHANGED <<path, files>>
    BY <1>1, <1>5, ReturnInv DEF IInv, TypeOK
  <1> QED BY <1>2, <1>3, <1>4, <1>5 DEF CreateNew

(* Sizing the file.                                                        *)
LEMMA SetLenInv ==
  ASSUME IInv, NEW c \in Caller, SetLen(c)
  PROVE  IInv'
  <1>1. /\ pc[c] = "set_len" /\ UNCHANGED <<path, files, removed>>
        /\ file[c] # 0 /\ want[c] \in Sizes
    BY OpenFile DEF SetLen
  <1>2. CASE /\ size' = [size EXCEPT ![file[c]] = want[c]] /\ len' = [len EXCEPT ![c] = want[c]]
             /\ Goto(c, "check") /\ UNCHANGED <<call, want, file, pass, since, late>>
    <2>1. \A f \in File : f > files => size'[f] = 0
      BY <1>2, FilesAssumption DEF IInv, TypeOK, Existing, File
    <2> QED BY <1>1, <1>2, <2>1, LocalInv DEF IInv, TypeOK
  <1>3. CASE Fail(c) /\ UNCHANGED size
    BY <1>1, <1>3, FailInv DEF IInv, TypeOK
  <1> QED BY <1>2, <1>3 DEF SetLen

(* The raw layer compares the length to map with the file once more.       *)
LEMMA CheckLenInv ==
  ASSUME IInv, NEW c \in Caller, CheckLen(c)
  PROVE  IInv'
  <1>1. /\ pc[c] = "check" /\ UNCHANGED <<path, files, size, removed>>
        /\ file[c] # 0 /\ want[c] \in Sizes
    BY OpenFile DEF CheckLen
  <1>2. CASE Goto(c, "mmap") /\ UNCHANGED <<call, want, file, len, pass, since, late>>
    BY <1>1, <1>2, LocalInv DEF IInv, TypeOK, Existing
  <1>3. CASE Fail(c)
    BY <1>1, <1>3, FailInv DEF IInv, TypeOK
  <1> QED BY <1>2, <1>3 DEF CheckLen

(* The system call that maps the file.                                     *)
LEMMA MmapInv ==
  ASSUME IInv, NEW c \in Caller, Mmap(c)
  PROVE  IInv'
  <1>1. /\ pc[c] = "mmap" /\ UNCHANGED <<path, files, size, removed>>
        /\ file[c] # 0 /\ want[c] \in Sizes
    BY OpenFile DEF Mmap
  <1>2. CASE Goto(c, "mapped") /\ UNCHANGED <<call, want, file, len, pass, since, late>>
    BY <1>1, <1>2, LocalInv DEF IInv, TypeOK, Existing
  <1>3. CASE Fail(c)
    BY <1>1, <1>3, FailInv DEF IInv, TypeOK
  <1> QED BY <1>2, <1>3 DEF Mmap

(* The undo of create_new removes whatever file is at the path.            *)
LEMMA RemoveFileInv ==
  ASSUME IInv, NEW c \in Caller, RemoveFile(c)
  PROVE  IInv'
  <1>1. /\ UNCHANGED <<files, size>> /\ path' \in {0, path} /\ removed' \in 0 .. files
        /\ removed' >= removed /\ (path' # path => removed' > removed)
        /\ (path' # 0 => removed' < files)
    BY DEF IInv, TypeOK, Existing, RemoveFile
  <1>2. TypeOK'
    BY <1>1 DEF IInv, TypeOK, RemoveFile, Return, Goto
  <1>3. Existing'
    BY <1>1 DEF IInv, TypeOK, Existing
  <1>4. FileOpen' /\ GaveUp'
    BY <1>1 DEF IInv, TypeOK, FileOpen, GaveUp, RemoveFile, Return, Goto
  <1>5. SecondPass'
    BY <1>1 DEF IInv, TypeOK, SecondPass, RemoveFile, Return, Goto
  <1> QED BY <1>2, <1>3, <1>4, <1>5 DEF IInv

(* The inductive invariant, for any sizes.                                 *)
THEOREM Invariance == Spec => []IInv
  <1>1. Init => IInv
    BY FilesAssumption DEF Init, IInv, TypeOK, FileOpen, Existing, SecondPass, GaveUp
  <1>2. IInv /\ [Next]_vars => IInv'
    <2> SUFFICES ASSUME IInv, [Next]_vars PROVE IInv'
      OBVIOUS
    <2>1. ASSUME NEW c \in Caller, Close(c) PROVE IInv'
      BY <2>1, ReturnInv DEF Close, IInv, TypeOK
    <2>2. CASE UNCHANGED vars
      BY <2>2 DEF vars, IInv, TypeOK, FileOpen, Existing, SecondPass, GaveUp
    <2> QED BY <2>1, <2>2, CallInv, OpenInv, StatInv, CreateNewInv, SetLenInv, CheckLenInv,
               MmapInv, RemoveFileInv, CallsAssumption DEF Next
  <1> QED BY <1>1, <1>2, PTL DEF Spec

(* Types: a caller's file is one that was created, and no more files are   *)
(* removed than were created.                                              *)
THEOREM TypeCorrect == Spec => []TypeOK
  <1>1. IInv => TypeOK
    BY DEF IInv
  <1> QED BY <1>1, Invariance, PTL

(* The two passes of open_or_create_rw_file are enough for any number of   *)
(* racing creators: it gives up only if some create_new removed a file     *)
(* while it ran.                                                           *)
THEOREM TwoPassesSuffice == Spec => []GivesUpOnlyAfterRemoval
  <1>1. IInv => GivesUpOnlyAfterRemoval
    BY DEF IInv, SecondPass, GaveUp, GivesUpOnlyAfterRemoval
  <1> QED BY <1>1, Invariance, PTL

-----------------------------------------------------------------------------
(***************************************************************************)
(* Settled files                                                           *)
(***************************************************************************)

(* What every step does to the settled files.                              *)
Kept == \A f \in Settled : size'[f] = size[f] /\ f \in Settled'

(* A step of caller c that changes the length of no settled file and does  *)
(* not take c to sizing one.                                               *)
LEMMA KeptBy ==
  ASSUME IInv, NEW c \in Caller, NEW label, Goto(c, label),
         \A d \in Caller \ {c} : file'[d] = file[d],
         label = "set_len" => file'[c] \notin Settled,
         \A f \in Settled : size'[f] = size[f]
  PROVE  Kept
  <1>1. \A d \in Caller : pc'[d] = IF d = c THEN label ELSE pc[d]
    BY DEF IInv, TypeOK, Goto
  <1> QED BY <1>1 DEF Kept, Settled

(* A call that returns, or fails.                                          *)
LEMMA EndKept ==
  ASSUME IInv, NEW c \in Caller, Return(c) \/ Fail(c), UNCHANGED size
  PROVE  Kept
  <1>1. CASE Return(c)
    BY <1>1, KeptBy DEF Return, IInv, TypeOK
  <1>2. CASE Goto(c, "remove") /\ UNCHANGED file
    BY <1>2, KeptBy
  <1> QED BY <1>1, <1>2 DEF Fail

(* Only a caller at set_len changes a length, and nobody gets there with a *)
(* file that has bytes already.                                            *)
LEMMA NextKept ==
  ASSUME IInv, Next
  PROVE  Kept
  <1>1. ASSUME NEW c \in Caller, NEW name, NEW n, Call(c, name, n) PROVE Kept
    BY <1>1, KeptBy DEF Call
  <1>2. ASSUME NEW c \in Caller, Open(c) PROVE Kept
    <2>1. CASE Goto(c, "stat") /\ file' = [file EXCEPT ![c] = path]
      BY <1>2, <2>1, KeptBy DEF Open, IInv, TypeOK
    <2>2. CASE Goto(c, "create") /\ UNCHANGED file
      BY <1>2, <2>2, KeptBy DEF Open
    <2>3. CASE Return(c)
      BY <1>2, <2>3, EndKept DEF Open
    <2> QED BY <1>2, <2>1, <2>2, <2>3 DEF Open
  <1>3. ASSUME NEW c \in Caller, Stat(c) PROVE Kept
    <2>1. CASE Goto(c, "check") /\ UNCHANGED file
      BY <1>3, <2>1, KeptBy DEF Stat
    <2>2. CASE size[file[c]] = 0 /\ Goto(c, "set_len") /\ UNCHANGED file
      <3>1. file[c] \notin Settled
        BY <2>2 DEF Settled
      <3> QED BY <1>3, <2>2, <3>1, KeptBy DEF Stat
    <2>3. CASE Return(c)
      BY <1>3, <2>3, EndKept DEF Stat
    <2> QED BY <1>3, <2>1, <2>2, <2>3 DEF Stat
  <1>4. ASSUME NEW c \in Caller, CreateNew(c) PROVE Kept
    <2>1. CASE NewFile(c)
      <3>1. /\ files + 1 \in File /\ files + 1 > files
            /\ file' = [file EXCEPT ![c] = files + 1] /\ Goto(c, "set_len")
        BY <2>1, FilesAssumption DEF NewFile, IInv, TypeOK, File
      <3>2. files + 1 \notin Settled
        BY <3>1 DEF IInv, Existing, Settled
      <3> QED BY <1>4, <3>1, <3>2, KeptBy DEF CreateNew, IInv, TypeOK
    <2>2. ASSUME NEW label \in {"open", "gave_up"}, Goto(c, label), UNCHANGED file PROVE Kept
      BY <1>4, <2>2, KeptBy DEF CreateNew
    <2>3. CASE Return(c)
      BY <1>4, <2>3, EndKept DEF CreateNew
    <2> QED BY <1>4, <2>1, <2>2, <2>3 DEF CreateNew
  <1>5. ASSUME NEW c \in Caller, SetLen(c) PROVE Kept
    <2>1. CASE /\ size' = [size EXCEPT ![file[c]] = want[c]]
               /\ Goto(c, "check") /\ UNCHANGED file
      <3>1. file[c] \notin Settled
        BY <1>5 DEF SetLen, Settled
      <3>2. \A f \in Settled : size'[f] = size[f]
        BY <2>1, <3>1 DEF Settled, IInv, TypeOK
      <3> QED BY <2>1, <3>2, KeptBy
    <2>2. CASE Fail(c) /\ UNCHANGED size
      BY <2>2, EndKept
    <2> QED BY <1>5, <2>1, <2>2 DEF SetLen
  <1>6. ASSUME NEW c \in Caller, CheckLen(c) \/ Mmap(c) PROVE Kept
    <2>1. ASSUME NEW label \in {"mmap", "mapped"}, Goto(c, label), UNCHANGED file PROVE Kept
      BY <1>6, <2>1, KeptBy DEF CheckLen, Mmap
    <2> QED BY <1>6, <2>1, EndKept DEF CheckLen, Mmap
  <1>7. ASSUME NEW c \in Caller, RemoveFile(c) \/ Close(c) PROVE Kept
    BY <1>7, EndKept DEF RemoveFile, Close
  <1> QED BY <1>1, <1>2, <1>3, <1>4, <1>5, <1>6, <1>7 DEF Next

(* A file with bytes that nobody is about to size keeps its length for     *)
(* ever, whatever sizes the callers of the three calls configure.          *)
THEOREM SettledKept == Spec => SettledFilesKept
  <1>1. IInv /\ [Next]_vars
        => [\A f \in Settled : size'[f] = size[f] /\ f \in Settled']_vars
    BY NextKept DEF Kept
  <1> QED BY <1>1, Invariance, PTL DEF Spec, SettledFilesKept

-----------------------------------------------------------------------------
(***************************************************************************)
(* Late openers                                                            *)
(***************************************************************************)

(* A step of caller c leaves the others' locals alone and their settled    *)
(* files settled.                                                          *)
LEMMA LateBy ==
  ASSUME IInv, LateSettled, Kept, NEW c \in Caller, NEW label, Goto(c, label),
         \A d \in Caller \ {c} : file'[d] = file[d] /\ len'[d] = len[d],
         late' \subseteq late \union {c},
         c \in late' =>
           /\ label \in {"stat", "check", "mmap", "mapped", "remove"}
           /\ label # "remove" => file'[c] \in Settled'
           /\ label \in {"check", "mmap", "mapped"} => len'[c] = size'[file'[c]]
  PROVE  LateSettled'
  <1>1. late \subseteq Caller /\ \A d \in Caller : pc'[d] = IF d = c THEN label ELSE pc[d]
    BY DEF IInv, TypeOK, Goto
  <1>2. ASSUME NEW d \in late', d # c
        PROVE  /\ pc'[d] \in {"stat", "check", "mmap", "mapped", "remove"}
               /\ pc'[d] # "remove" => file'[d] \in Settled'
               /\ pc'[d] \in {"check", "mmap", "mapped"} => len'[d] = size'[file'[d]]
    <2>1. d \in late /\ d \in Caller /\ pc'[d] = pc[d] /\ file'[d] = file[d] /\ len'[d] = len[d]
      BY <1>1, <1>2
    <2> QED BY <2>1 DEF LateSettled, Kept
  <1> QED BY <1>1, <1>2 DEF LateSettled

(* A call that returns is no late opener any more; one that fails and has  *)
(* to undo has closed its file.                                            *)
LEMMA EndLate ==
  ASSUME IInv, LateSettled, Kept, NEW c \in Caller, Return(c) \/ Fail(c)
  PROVE  LateSettled'
  <1>1. CASE Return(c)
    BY <1>1, LateBy DEF Return, IInv, TypeOK
  <1>2. CASE Goto(c, "remove") /\ UNCHANGED <<file, len, late>>
    BY <1>2, LateBy
  <1> QED BY <1>1, <1>2 DEF Fail

(* The length that a late opener has read stays the length of its file.    *)
LEMMA NextLate ==
  ASSUME IInv, LateSettled, Next
  PROVE  LateSettled'
  <1>1. Kept
    BY NextKept
  <1>2. ASSUME NEW c \in Caller, NEW name, NEW n, Call(c, name, n) PROVE LateSettled'
    <2>1. c \notin late
      BY <1>2 DEF Call, LateSettled
    <2> QED BY <1>1, <1>2, <2>1, LateBy DEF Call
  <1>3. ASSUME NEW c \in Caller, Open(c) PROVE LateSettled'
    <2>1. c \notin late
      BY <1>3 DEF Open, LateSettled
    <2>2. CASE /\ Goto(c, "stat") /\ file' = [file EXCEPT ![c] = path] /\ UNCHANGED len
               /\ late' = IF path \in Settled THEN late \union {c} ELSE late
      <3>1. c \in late' => file'[c] \in Settled'
        BY <1>1, <2>1, <2>2 DEF Kept, IInv, TypeOK
      <3> QED BY <1>1, <2>2, <3>1, LateBy DEF IInv, TypeOK
    <2>3. CASE Goto(c, "create") /\ UNCHANGED <<file, len, late>>
      BY <1>1, <2>1, <2>3, LateBy
    <2>4. CASE Return(c)
      BY <1>1, <2>4, EndLate
    <2> QED BY <1>3, <2>2, <2>3, <2>4 DEF Open
  <1>4. ASSUME NEW c \in Caller, Stat(c) PROVE LateSettled'
    <2>1. CASE /\ Goto(c, "check") /\ len' = [len EXCEPT ![c] = size[file[c]]]
               /\ UNCHANGED <<file, late>>
      <3>1. c \in late => file[c] \in Settled
        BY <1>4 DEF Stat, LateSettled
      <3>2. len'[c] = size[file[c]] /\ UNCHANGED size
        BY <1>4, <2>1 DEF Stat, IInv, TypeOK
      <3>3. c \in late' => file'[c] \in Settled' /\ len'[c] = size'[file'[c]]
        BY <1>1, <2>1, <3>1, <3>2 DEF Kept
      <3> QED BY <1>1, <2>1, <3>3, LateBy DEF IInv, TypeOK
    <2>2. CASE size[file[c]] = 0 /\ Goto(c, "set_len") /\ UNCHANGED <<file, len, late>>
      <3>1. c \notin late
        BY <1>4, <2>2 DEF Stat, LateSettled, Settled
      <3> QED BY <1>1, <2>2, <3>1, LateBy
    <2>3. CASE Return(c)
      BY <1>1, <2>3, EndLate
    <2> QED BY <1>4, <2>1, <2>2, <2>3 DEF Stat
  <1>5. ASSUME NEW c \in Caller, CreateNew(c) PROVE LateSettled'
    <2>1. c \notin late
      BY <1>5 DEF CreateNew, LateSettled
    <2>2. CASE NewFile(c)
      BY <1>1, <2>1, <2>2, LateBy DEF NewFile, IInv, TypeOK
    <2>3. ASSUME NEW label, Goto(c, label), UNCHANGED <<file, len, late>> PROVE LateSettled'
      BY <1>1, <2>1, <2>3, LateBy
    <2>4. CASE Return(c)
      BY <1>1, <2>4, EndLate
    <2> QED BY <1>5, <2>2, <2>3, <2>4 DEF CreateNew
  <1>6. ASSUME NEW c \in Caller, SetLen(c) PROVE LateSettled'
    <2>1. c \notin late
      BY <1>6 DEF SetLen, LateSettled
    <2>2. CASE Goto(c, "check") /\ len' = [len EXCEPT ![c] = want[c]] /\ UNCHANGED <<file, late>>
      BY <1>1, <2>1, <2>2, LateBy DEF IInv, TypeOK
    <2>3. CASE Fail(c)
      BY <1>1, <2>3, EndLate
    <2> QED BY <1>6, <2>2, <2>3 DEF SetLen
  <1>7. ASSUME NEW c \in Caller, CheckLen(c) \/ Mmap(c) PROVE LateSettled'
    <2>1. ASSUME NEW label \in {"mmap", "mapped"}, Goto(c, label), UNCHANGED <<file, len, late>>
          PROVE  LateSettled'
      <3>1. c \in late => file[c] \in Settled /\ len[c] = size[file[c]]
        BY <1>7 DEF CheckLen, Mmap, LateSettled
      <3> QED BY <1>1, <2>1, <3>1, LateBy DEF Kept
    <2> QED BY <1>1, <1>7, <2>1, EndLate DEF CheckLen, Mmap
  <1>8. ASSUME NEW c \in Caller, RemoveFile(c) \/ Close(c) PROVE LateSettled'
    BY <1>1, <1>8, EndLate DEF RemoveFile, Close
  <1> QED BY <1>2, <1>3, <1>4, <1>5, <1>6, <1>7, <1>8 DEF Next

(* Whoever opened a settled file has mapped exactly its length, as long as *)
(* the mapping lives.                                                      *)
THEOREM LateOpenersSafe == Spec => []LateOpenersBacked
  <1>1. Init => LateSettled
    BY DEF Init, LateSettled
  <1>2. IInv /\ LateSettled /\ [Next]_vars => LateSettled'
    <2>1. LateSettled /\ UNCHANGED vars => LateSettled'
      BY DEF LateSettled, Settled, vars
    <2> QED BY <2>1, NextLate
  <1>3. LateSettled => LateOpenersBacked
    BY DEF LateSettled, LateOpenersBacked
  <1> QED BY <1>1, <1>2, <1>3, Invariance, PTL DEF Spec

=============================================================================
