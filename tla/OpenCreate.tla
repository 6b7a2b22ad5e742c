----------------------------- MODULE OpenCreate -----------------------------
(***************************************************************************)
(* The builder calls that create or open a ReadWrite mapping at one path:  *)
(* open_or_create, create_new and open (src/mmap.rs), made at the same     *)
(* time by threads or processes that do not know of each other.  Every     *)
(* system call is a step.  A file is a number: creating the path again     *)
(* after it was removed makes another file.  create and create_rw truncate *)
(* by contract and are not among the calls.                                *)
(***************************************************************************)
EXTENDS Naturals

CONSTANTS
  Caller,     (* threads or processes                                      *)
  Calls,      (* the calls they make                                       *)
  Sizes,      (* the sizes they configure, and lengths of an existing file *)
  Initial,    (* what may be at the path in the beginning                  *)
  CanFail,    (* may sizing, mapping and removing a file fail?             *)
  MaxFiles    (* bound on the number of files at the path, over time       *)

ASSUME CallsAssumption == Calls \subseteq {"open_or_create", "create_new", "open"}
ASSUME SizesAssumption == Sizes \subseteq Nat \ {0} /\ CanFail \in BOOLEAN
ASSUME FilesAssumption == MaxFiles \in Nat \ {0} /\ Initial \subseteq {"none", "empty", "data"}

VARIABLES
  path,       (* the file at the path; 0: none                             *)
  files,      (* number of files at the path so far                        *)
  size,       (* size[f]: length of file f                                 *)
  removed,    (* number of files removed from the path                     *)
  pc, call,   (* step and call of each caller                              *)
  want,       (* its configured size                                       *)
  file, len,  (* its file and the length it will map, or has mapped        *)
  pass,       (* the pass of the loop of open_or_create_rw_file            *)
  since,      (* history: removed at the start of its call                 *)
  late        (* history: callers that opened a settled file               *)

vars == <<path, files, size, removed, pc, call, want, file, len, pass, since, late>>

File == 1 .. MaxFiles

(* Files with bytes that nobody has seen empty and is about to size.       *)
Settled ==
  {f \in File : size[f] > 0 /\ \A c \in Caller : pc[c] = "set_len" => file[c] # f}

Init ==
  /\ \E there \in Initial, n \in Sizes :
       /\ files = IF there = "none" THEN 0 ELSE 1
       /\ size = [f \in File |-> IF f = 1 /\ there = "data" THEN n ELSE 0]
  /\ path = files /\ removed = 0
  /\ pc = [c \in Caller |-> "idle"]
  /\ call = [c \in Caller |-> "none"]
  /\ want = [c \in Caller |-> 0]
  /\ file = [c \in Caller |-> 0]
  /\ len = [c \in Caller |-> 0]
  /\ pass = [c \in Caller |-> 0]
  /\ since = [c \in Caller |-> 0]
  /\ late = {}

Goto(c, label) == pc' = [pc EXCEPT ![c] = label]

(* A call that returns an error, or the drop of the mapping                *)
Return(c) ==
  /\ Goto(c, "idle")
  /\ call' = [call EXCEPT ![c] = "none"]
  /\ want' = [want EXCEPT ![c] = 0]
  /\ file' = [file EXCEPT ![c] = 0]
  /\ len' = [len EXCEPT ![c] = 0]
  /\ pass' = [pass EXCEPT ![c] = 0]
  /\ since' = [since EXCEPT ![c] = 0]
  /\ late' = late \ {c}

Call(c, name, n) ==
  /\ pc[c] = "idle"
  /\ Goto(c, IF name = "create_new" THEN "create" ELSE "open")
  /\ call' = [call EXCEPT ![c] = name]
  /\ want' = [want EXCEPT ![c] = n]
  /\ pass' = [pass EXCEPT ![c] = 1]
  /\ since' = [since EXCEPT ![c] = removed]
  /\ UNCHANGED <<path, files, size, removed, file, len, late>>

(* OpenOptions::open without create                                        *)
Open(c) ==
  /\ pc[c] = "open"
  /\ \/ /\ path # 0
        /\ file' = [file EXCEPT ![c] = path]
        /\ late' = IF path \in Settled THEN late \union {c} ELSE late
        /\ Goto(c, "stat")
        /\ UNCHANGED <<call, want, len, pass, since>>
     \/ /\ path = 0 /\ call[c] = "open_or_create"
        /\ Goto(c, "create")
        /\ UNCHANGED <<call, want, file, len, pass, since, late>>
     \/ /\ path = 0 /\ call[c] = "open"
        /\ Return(c)
  /\ UNCHANGED <<path, files, size, removed>>

(* Defect: open_or_create sizes the file without a look at its length      *)
Stat_NoLength(c) ==
  /\ pc[c] = "stat"
  /\ \/ /\ call[c] = "open_or_create"
        /\ Goto(c, "set_len")
        /\ UNCHANGED <<call, want, file, len, pass, since, late>>
     \/ /\ size[file[c]] > 0 /\ call[c] = "open"
        /\ len' = [len EXCEPT ![c] = size[file[c]]]
        /\ Goto(c, "check")
        /\ UNCHANGED <<call, want, file, pass, since, late>>
     \/ size[file[c]] = 0 /\ call[c] = "open" /\ Return(c)
  /\ UNCHANGED <<path, files, size, removed>>

(* File::metadata: a file with bytes is mapped at its length; an empty one *)
(* is sized by open_or_create and refused by open.                         *)
Stat(c) ==
  /\ pc[c] = "stat"
  /\ \/ /\ size[file[c]] > 0
        /\ len' = [len EXCEPT ![c] = size[file[c]]]
        /\ Goto(c, "check")
        /\ UNCHANGED <<call, want, file, pass, since, late>>
     \/ /\ size[file[c]] = 0 /\ call[c] = "open_or_create"
        /\ Goto(c, "set_len")
        /\ UNCHANGED <<call, want, file, len, pass, since, late>>
     \/ /\ size[file[c]] = 0 /\ call[c] = "open"
        /\ Return(c)
  /\ UNCHANGED <<path, files, size, removed>>

NewFile(c) ==
  /\ files < MaxFiles
  /\ files' = files + 1
  /\ path' = files + 1
  /\ file' = [file EXCEPT ![c] = files + 1]
  /\ Goto(c, "set_len")
  /\ UNCHANGED <<call, want, len, pass, since, late>>

(* Defect: one pass instead of two                                         *)
CreateNew_OnePass(c) ==
  /\ pc[c] = "create"
  /\ \/ path = 0 /\ NewFile(c)
     \/ /\ path # 0 /\ call[c] = "open_or_create"
        /\ Goto(c, "gave_up")
        /\ UNCHANGED <<path, files, call, want, file, len, pass, since, late>>
     \/ path # 0 /\ call[c] = "create_new" /\ Return(c) /\ UNCHANGED <<path, files>>
  /\ UNCHANGED <<size, removed>>

(* Defect: create and truncate instead of the exclusive create             *)
CreateNew_Truncates(c) ==
  /\ pc[c] = "create"
  /\ \/ path = 0 /\ NewFile(c) /\ UNCHANGED size
     \/ /\ path # 0
        /\ file' = [file EXCEPT ![c] = path]
        /\ size' = [size EXCEPT ![path] = 0]
        /\ Goto(c, "set_len")
        /\ UNCHANGED <<path, files, call, want, len, pass, since, late>>
  /\ UNCHANGED removed

(* OpenOptions::create_new: exclusive.  When the file exists after all,    *)
(* open_or_create tries once more and then gives up; create_new fails.     *)
CreateNew(c) ==
  /\ pc[c] = "create"
  /\ \/ path = 0 /\ NewFile(c)
     \/ /\ path # 0 /\ call[c] = "open_or_create" /\ pass[c] = 1
        /\ pass' = [pass EXCEPT ![c] = 2]
        /\ Goto(c, "open")
        /\ UNCHANGED <<path, files, call, want, file, len, since, late>>
     \/ /\ path # 0 /\ call[c] = "open_or_create" /\ pass[c] = 2
        /\ Goto(c, "gave_up")
        /\ UNCHANGED <<path, files, call, want, file, len, pass, since, late>>
     \/ path # 0 /\ call[c] = "create_new" /\ Return(c) /\ UNCHANGED <<path, files>>
  /\ UNCHANGED <<size, removed>>

(* An error after the file is open: create_new has to undo                 *)
Fail(c) ==
  \/ /\ call[c] = "create_new"
     /\ Goto(c, "remove")
     /\ UNCHANGED <<call, want, file, len, pass, since, late>>
  \/ call[c] # "create_new" /\ Return(c)

(* File::set_len(size), in open_or_create_rw_file and in create_new        *)
SetLen(c) ==
  /\ pc[c] = "set_len"
  /\ \/ /\ size' = [size EXCEPT ![file[c]] = want[c]]
        /\ len' = [len EXCEPT ![c] = want[c]]
        /\ Goto(c, "check")
        /\ UNCHANGED <<call, want, file, pass, since, late>>
     \/ CanFail /\ Fail(c) /\ UNCHANGED size
  /\ UNCHANGED <<path, files, removed>>

(* finish_rw maps len bytes.  The raw layer looks at the length of the     *)
(* file once more and refuses a window past its end...                     *)
CheckLen(c) ==
  /\ pc[c] = "check"
  /\ \/ /\ len[c] <= size[file[c]]
        /\ Goto(c, "mmap")
        /\ UNCHANGED <<call, want, file, len, pass, since, late>>
     \/ len[c] > size[file[c]] /\ Fail(c)
  /\ UNCHANGED <<path, files, size, removed>>

(* ... before it makes the system call.                                    *)
Mmap(c) ==
  /\ pc[c] = "mmap"
  /\ \/ Goto(c, "mapped") /\ UNCHANGED <<call, want, file, len, pass, since, late>>
     \/ CanFail /\ Fail(c)
  /\ UNCHANGED <<path, files, size, removed>>

(* create_new failed: std::fs::remove_file of whatever is at the path; its *)
(* own error is ignored.                                                   *)
RemoveFile(c) ==
  /\ pc[c] = "remove"
  /\ \/ path # 0 /\ path' = 0 /\ removed' = removed + 1
     \/ (path = 0 \/ CanFail) /\ UNCHANGED <<path, removed>>
  /\ Return(c)
  /\ UNCHANGED <<files, size>>

(* The mapping is dropped, or the error of a call that gave up is seen.    *)
Close(c) ==
  /\ pc[c] \in {"mapped", "gave_up"}
  /\ Return(c)
  /\ UNCHANGED <<path, files, size, removed>>

Next == \E c \in Caller :
  \/ \E name \in Calls, n \in Sizes : Call(c, name, n)
  \/ Open(c) \/ Stat(c) \/ CreateNew(c) \/ SetLen(c) \/ CheckLen(c) \/ Mmap(c)
  \/ RemoveFile(c) \/ Close(c)

Spec == Init /\ [][Next]_vars

-----------------------------------------------------------------------------
(***************************************************************************)
(* Properties                                                              *)
(***************************************************************************)

(* Types of the path, the files and the locals of the calls.               *)
TypeOK ==
  /\ path \in 0 .. files /\ files \in 0 .. MaxFiles /\ removed \in 0 .. files
  /\ size \in [File -> Sizes \union {0}]
  /\ pc \in [Caller -> {"idle", "open", "stat", "create", "set_len", "check", "mmap",
                        "remove", "mapped", "gave_up"}]
  /\ call \in [Caller -> {"none", "open_or_create", "create_new", "open"}]
  /\ want \in [Caller -> Sizes \union {0}]
  /\ file \in [Caller -> 0 .. files]
  /\ len \in [Caller -> Sizes \union {0}]
  /\ pass \in [Caller -> 0 .. 2]
  /\ since \in [Caller -> Nat] /\ late \subseteq Caller

(* "For ReadWrite the file is never truncated", "two processes racing to   *)
(* create the same path cannot truncate each other's data": nobody's live  *)
(* mapping reaches past the end of its file.  The run OpenCreateRace shows *)
(* that two calls of open_or_create on an empty file violate it.           *)
MappedBacked ==
  \A c \in Caller : pc[c] = "mapped" => len[c] <= size[file[c]]

(* What does hold, whatever sizes the callers configure: a file that has   *)
(* bytes, and that nobody has seen empty and is about to size, keeps its   *)
(* length for ever.  open_or_create "is never truncated" for an existing   *)
(* file, create_new leaves one "untouched".                                *)
SettledFilesKept ==
  [][\A f \in Settled : size'[f] = size[f] /\ f \in Settled']_vars

(* Whoever opened the file after that has mapped exactly its length: the   *)
(* length it read before it mapped is not stale when it maps, nor later.   *)
LateOpenersBacked ==
  \A c \in late : pc[c] = "mapped" => len[c] = size[file[c]]

(* open_or_create gives up only if a file was removed from the path while  *)
(* it ran: two passes are enough for every race of callers that only       *)
(* create.                                                                 *)
GivesUpOnlyAfterRemoval ==
  \A c \in Caller : pc[c] = "gave_up" => removed > since[c]

=============================================================================
