----------------------------- MODULE FsCommands -----------------------------
(***************************************************************************)
(* The shell's file commands, bin/*.c, on the filesystem of Fs.  Some call *)
(* fs.c, several times for one command; cd, mv, rmdir, touch and ls read   *)
(* and change root_fs and current_dir themselves.  A step is one call of a *)
(* command that makes several, or a whole command.  One command runs at a  *)
(* time: the shell waits for it.                                           *)
(*                                                                         *)
(* orderly is a history variable: no deletion left a hole in the array,    *)
(* rmdir removed nothing and the current directory was never NULL.         *)
(***************************************************************************)
EXTENDS Fs

CONSTANTS
  BUFFER_SIZE,    \* of cp (512)
  CAT_SIZE,       \* BUFFER_SIZE of cat (1024)
  Lines,          \* bound: lengths of the lines that ed inserts, with their newline
  MaxContent,     \* bound: what ed holds
  Used            \* the commands that are entered

ASSUME CommandsAssumption ==
  /\ BUFFER_SIZE \in Nat \ {0} /\ CAT_SIZE \in Nat \ {0}
  /\ Lines \subseteq Nat /\ MaxContent \in Nat

VARIABLES
  cmd,            \* the command that runs: [op, src, dst, step, bytes], or NoCommand
  status,         \* exit status of the last command
  content_len,    \* of ed; it outlives the editor
  orderly

commands_vars == <<vars, cmd, status, content_len, orderly>>

NoCommand == [op |-> "none", src |-> ZeroName, dst |-> ZeroName, step |-> "none", bytes |-> 0]
Idle == cmd = NoCommand
Words == Names \cup {RootName}
Counted == {i \in Slots : i < file_count}
NoHolesIn(free) == \A i \in Slots \ free, j \in Slots : j < i => j \notin free

CommandsInit == Init /\ cmd = NoCommand /\ status = 0 /\ content_len = 0 /\ orderly = TRUE

\* A command that ran to its end.
Done(op, value) ==
  /\ Idle /\ op \in Used /\ status' = value
  /\ UNCHANGED <<cmd, content_len>>

Goto(step) == cmd' = [cmd EXCEPT !.step = step] /\ UNCHANGED <<status, content_len>>
Exit(value) == cmd' = NoCommand /\ status' = value /\ UNCHANGED content_len
Launch(op, src, dst, step) ==
  /\ Idle /\ op \in Used
  /\ cmd' = [NoCommand EXCEPT !.op = op, !.src = src, !.dst = dst, !.step = step]
  /\ UNCHANGED <<vars, status, content_len>>
At(op, step) == cmd.op = op /\ cmd.step = step
Succeeds == ret'.value = "SUCCESS"

-----------------------------------------------------------------------------
(* Commands that are one call. *)

Mkdir(name) == FsMkdir(name) /\ Done("mkdir", IF Succeeds THEN 0 ELSE 1)

\* The codes rm looks for, -1 and -2, are not those that fs_delete answers for a file in use or
\* one that is not found: every error is the unknown one.
Rm(name) == FsDelete(name) /\ Done("rm", IF Succeeds THEN 0 ELSE 1)

\* The name is looked for in all directories.
Taken(name) == \E i \in Counted : files[i].name = name

Touch(name) ==
  \/ Taken(name) /\ Reply("touch", name, "EXISTS") /\ Done("touch", 2)
  \/ ~Taken(name) /\ FsCreate(name) /\ Done("touch", IF Succeeds THEN 0 ELSE 2)

-----------------------------------------------------------------------------
(* Commands that use root_fs themselves. *)

Named(name) == Min({i \in Counted : files[i].name = name})

\* Mutant: whatever has the destination's name stays beside it.
MvOver(source, dest) ==
  \/ ~Taken(source) /\ Reply("mv", source, "NOT_FOUND") /\ Done("mv", 2)
  \/ Taken(source) /\ files[Named(source)].is_open /\ Reply("mv", source, "FILE_OPEN") /\ Done("mv", 4)
  \/ /\ Taken(source) /\ ~files[Named(source)].is_open
     /\ UpdateFile(Named(source), [files[Named(source)] EXCEPT !.name = dest])
     /\ ret' = Answer("mv", source, "SUCCESS")
     /\ Done("mv", 0)

\* The first entry of that name, in whatever directory, gets the other name; the name is not
\* validated.
Mv(source, dest) ==
  \/ ~Taken(source) /\ Reply("mv", source, "NOT_FOUND") /\ Done("mv", 2)
  \/ Taken(source) /\ Taken(dest) /\ Reply("mv", source, "EXISTS") /\ Done("mv", 3)
  \/ /\ Taken(source) /\ ~Taken(dest) /\ files[Named(source)].is_open
     /\ Reply("mv", source, "FILE_OPEN") /\ Done("mv", 4)
  \/ /\ Taken(source) /\ ~Taken(dest) /\ ~files[Named(source)].is_open
     /\ UpdateFile(Named(source), [files[Named(source)] EXCEPT !.name = dest])
     /\ ret' = Answer("mv", source, "SUCCESS")
     /\ Done("mv", 0)

MoveTo(dir) ==
  /\ current_dir' = dir /\ ret' = Answer("cd", ZeroName, "SUCCESS")
  /\ UNCHANGED <<files, free_list, file_count>> /\ Done("cd", 0)

\* cd / and, at the root, cd .. make the current directory NULL, not the root.
CdRoot == MoveTo(NULL)
CdUp == MoveTo(IF current_dir = NULL THEN NULL ELSE files[current_dir].parent)

Subdirs(name) ==
  {i \in Counted : files[i].is_dir /\ files[i].name = name /\ files[i].parent = current_dir}
Cd(name) ==
  \/ Subdirs(name) # {} /\ MoveTo(Min(Subdirs(name)))
  \/ Subdirs(name) = {} /\ Reply("cd", name, "NOT_FOUND") /\ Done("cd", 2)

Here(name) == {i \in Counted : files[i].parent = current_dir /\ files[i].name = name}

\* The entries behind the removed one move one slot to the left; the last slot keeps its entry.
\* Nothing else knows: free_list, the pointers to directories and current_dir stay.
Rmdir(name) ==
  LET i == Min(Here(name))
      code == IF Here(name) = {} THEN 5
              ELSE IF ~files[i].is_dir THEN 2
              ELSE IF \E j \in Counted : files[j].parent = i THEN 3
              ELSE IF files[i].is_open THEN 4 ELSE 0
  IN /\ \/ code # 0 /\ Reply("rmdir", name, "FAILED")
        \/ /\ code = 0
           /\ files' = [k \in Slots |-> IF i <= k /\ k < file_count - 1 THEN files[k + 1] ELSE files[k]]
           /\ file_count' = file_count - 1
           /\ ret' = Answer("rmdir", name, "REMOVED")
           /\ UNCHANGED <<free_list, current_dir>>
     /\ Done("rmdir", code)

\* What ls prints.
Listed == {i \in Counted : files[i].parent = current_dir}

\* pwd follows the parents through at most as many directories as the array has entries.
Parent(dir) == IF dir = NULL THEN NULL ELSE files[dir].parent
Above == LET up[n \in 0 .. MaxFiles] == IF n = 0 THEN current_dir ELSE Parent(up[n - 1]) IN up
PathEnds == Above[MaxFiles] = NULL
Pwd == Reply("pwd", ZeroName, "SUCCESS") /\ Done("pwd", IF PathEnds THEN 0 ELSE 1)

-----------------------------------------------------------------------------
(* cp: open, create, open, then read and write in turn, and close both. *)

Cp(src, dst) == Launch("cp", src, dst, "open")
CpOpen ==
  /\ At("cp", "open") /\ FsOpen(cmd.src)
  /\ IF Succeeds THEN Goto("create") ELSE Exit(1)

\* Mutant: the source stays open.
CpCreateLeaves ==
  /\ At("cp", "create") /\ FsCreate(cmd.dst)
  /\ IF Succeeds THEN Goto("open2") ELSE Exit(1)

CpCreate ==
  /\ At("cp", "create") /\ FsCreate(cmd.dst)
  /\ IF Succeeds THEN Goto("open2") ELSE Goto("fail")
CpOpenCopy ==
  /\ At("cp", "open2") /\ FsOpen(cmd.dst)
  /\ IF Succeeds THEN Goto("read") ELSE Goto("fail")

\* Mutant: a chunk that fills the buffer is the last one.
CpReadOnce ==
  /\ At("cp", "read") /\ FsRead(cmd.src, BUFFER_SIZE)
  /\ cmd' = [cmd EXCEPT !.step = IF cmd.bytes = BUFFER_SIZE \/ ret'.value = 0 THEN "close" ELSE "write",
                        !.bytes = ret'.value]
  /\ UNCHANGED <<status, content_len>>

CpRead ==
  /\ At("cp", "read") /\ FsRead(cmd.src, BUFFER_SIZE)
  /\ cmd' = [cmd EXCEPT !.step = IF ret'.value = 0 THEN "close" ELSE "write", !.bytes = ret'.value]
  /\ UNCHANGED <<status, content_len>>
CpWrite ==
  /\ At("cp", "write") /\ FsWrite(cmd.dst, cmd.bytes)
  /\ Goto(IF ret'.value = cmd.bytes THEN "read" ELSE "close")
CpClose == At("cp", "close") /\ FsClose(cmd.src) /\ Goto("close2")
\* Bytes are left over when they could not be written.
CpCloseCopy == At("cp", "close2") /\ FsClose(cmd.dst) /\ Exit(IF cmd.bytes = 0 THEN 0 ELSE 1)
CpFail == At("cp", "fail") /\ FsClose(cmd.src) /\ Exit(1)

CpStep ==
  CpOpen \/ CpCreate \/ CpOpenCopy \/ CpRead \/ CpWrite \/ CpClose \/ CpCloseCopy \/ CpFail

-----------------------------------------------------------------------------
(* cat: open, read to the end, close. *)

Cat(name) == Launch("cat", name, ZeroName, "open")
CatOpen ==
  /\ At("cat", "open") /\ FsOpen(cmd.src)
  /\ IF Succeeds THEN Goto("read") ELSE Exit(1)
CatRead ==
  /\ At("cat", "read") /\ FsRead(cmd.src, CAT_SIZE)
  /\ Goto(IF ret'.value = 0 THEN "close" ELSE "read")
CatClose == At("cat", "close") /\ FsClose(cmd.src) /\ Exit(IF Succeeds THEN 0 ELSE 1)
CatStep == CatOpen \/ CatRead \/ CatClose

-----------------------------------------------------------------------------
(* ed: its text grows line by line and is written to a file that may exist. *)

EdInsert ==
  \E n \in Lines :
    /\ Idle /\ "ed" \in Used /\ content_len + n <= MaxContent
    /\ content_len' = content_len + n
    /\ UNCHANGED <<vars, cmd, status>>
EdWrite(name) == Launch("ed", name, ZeroName, "create")
EdCreate ==
  /\ At("ed", "create") /\ FsCreate(cmd.src)
  /\ IF ret'.value \in {"SUCCESS", "EXISTS"} THEN Goto("open") ELSE Exit(1)
EdOpen ==
  /\ At("ed", "open") /\ FsOpen(cmd.src)
  /\ IF Succeeds THEN Goto("write") ELSE Exit(1)
EdPut == At("ed", "write") /\ FsWrite(cmd.src, content_len) /\ Goto("close")
EdClose == At("ed", "close") /\ FsClose(cmd.src) /\ Exit(0)
EdStep == EdCreate \/ EdOpen \/ EdPut \/ EdClose

-----------------------------------------------------------------------------

Entered ==
  \/ \E name \in Names : Mkdir(name) \/ Rm(name) \/ Touch(name) \/ Rmdir(name) \/ Cat(name) \/ EdWrite(name)
  \/ \E name \in Words : Cd(name)
  \/ \E a, b \in Words : Mv(a, b)
  \/ \E a, b \in Names : Cp(a, b)
  \/ CdRoot \/ CdUp \/ Pwd \/ EdInsert

Removes == ret'.call = "rmdir" /\ status' = 0

CommandsNext ==
  /\ Entered \/ CpStep \/ CatStep \/ EdStep
  /\ orderly' = (orderly /\ current_dir' # NULL /\ ~Removes /\ NoHolesIn(free_list'))

\* All of the state that a later step depends on.
CommandsView == <<files, free_list, file_count, current_dir, cmd, content_len, orderly>>

CommandsSpec == CommandsInit /\ [][CommandsNext]_commands_vars

-----------------------------------------------------------------------------
(* Properties. *)

\* Whatever a command that makes several calls is refused on its way, and wherever its file is
\* found meanwhile, it leaves no file open for the next command (bin/cp.c:21-58, bin/cat.c:17-41,
\* bin/ed.c:82-89).
CommandsCloseFiles == Idle => \A i \in Slots : ~files[i].is_open

\* A copy that succeeded has all bytes of its source, chunk by chunk (bin/cp.c:43-55), unless
\* rmdir has removed a directory before: it leaves a second copy of the last entry behind the
\* counted ones, which the name of the destination may find instead of the new file.
CopyIsComplete ==
  [][CountIsExact /\ At("cp", "close2") /\ cmd' = NoCommand =>
       Found(cmd.src) /\ Found(cmd.dst) /\ files'[FindFile(cmd.src)].size = files'[FindFile(cmd.dst)].size]_commands_vars

\* While orderly holds, the commands that rename, make and look for entries in the array without
\* fs.c keep what fs.c relies on: one entry of a name in a directory, every directory in the array,
\* a path from the current one to the root; and ls prints all entries (bin/mv.c:28-58,
\* bin/touch.c:17-32, bin/cd.c:55-78, bin/ls.c:16-30).
OrderlyTree ==
  orderly =>
    /\ \A i, j \in Live : files[i].parent = files[j].parent /\ files[i].name = files[j].name => i = j
    /\ NoDanglingParent
    /\ PathEnds
    /\ Listed = {i \in Live : files[i].parent = current_dir}

\* "Build path by traversing up to root" (bin/cd.c:15): the parents of the current directory end.
PathReachesRoot == PathEnds
=============================================================================
