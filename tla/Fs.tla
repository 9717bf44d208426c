--------------------------------- MODULE Fs ---------------------------------
(***************************************************************************)
(* The in-memory filesystem, usr/drivers/fs.c: a fixed array of slots that *)
(* hold files and directories, each with a pointer to its directory.  Free *)
(* slots are found by scanning the whole array, names only among its first *)
(* file_count slots.                                                       *)
(*                                                                         *)
(* Pointers to files are slot numbers and names are values.  The bytes of  *)
(* a file, its inode and its times are left out; sizes and the position    *)
(* are kept.  malloc and realloc never fail (lib/libc/stdlib.c:20-40), so  *)
(* the paths for FS_ERR_NO_MEMORY are not taken.  ret is a history         *)
(* variable: the last call, the name it was given and its answer.          *)
(***************************************************************************)
EXTENDS Integers, FiniteSetsExt

CONSTANTS
  MaxFiles,       \* MAX_FILES (64)
  BlockSize,      \* FS_BLOCK_SIZE (512)
  MaxFileSize,    \* MAX_FILE_SIZE (8192)
  Names,          \* names callers give
  InvalidNames,   \* those of them fs_validate_filename rejects
  PermInputs,     \* arguments of fs_create_with_perms, sets of permissions
  Offsets,        \* arguments of fs_seek
  Lengths,        \* byte counts of fs_read and fs_write
  MaxPosition     \* bound: the position a file reaches

ASSUME FsAssumption ==
  /\ MaxFiles \in Nat /\ MaxFiles > 1
  /\ BlockSize \in Nat \ {0}
  /\ MaxFileSize \in Nat /\ MaxFileSize >= BlockSize /\ MaxFileSize % BlockSize = 0
  /\ InvalidNames \subseteq Names
  /\ PermInputs \subseteq SUBSET {"READ", "WRITE", "EXEC"}
  /\ Offsets \subseteq Nat /\ Lengths \subseteq Nat
  /\ MaxPosition \in Nat

VARIABLES
  files,        \* root_fs.files
  free_list,    \* the slots whose free_list flag is set
  file_count,
  current_dir,
  ret

vars == <<files, free_list, file_count, current_dir, ret>>

NULL == -1
Root == 0
RootName == "/"
ZeroName == ""
Slots == 0 .. MaxFiles - 1
Live == Slots \ free_list

DefaultPerms == {"READ", "WRITE"}
AllPerms == {"READ", "WRITE", "EXEC"}

\* A zeroed slot.
Zeroed ==
  [name |-> ZeroName, parent |-> NULL, is_dir |-> FALSE, is_open |-> FALSE,
   size |-> 0, allocated_size |-> 0, position |-> 0, permissions |-> {}]

NewDir(name, parent) ==
  [Zeroed EXCEPT !.name = name, !.parent = parent, !.is_dir = TRUE, !.permissions = AllPerms]

NewFile(name, perms) ==
  [Zeroed EXCEPT !.name = name, !.parent = current_dir, !.permissions = perms,
                 !.allocated_size = BlockSize]

Answer(call, name, value) == [call |-> call, name |-> name, value |-> value]

-----------------------------------------------------------------------------
(* Finding slots.                                                          *)

\* Mutant: the search stops one slot early.
MatchesButLast(name, dir) ==
  {i \in Live : i + 1 < file_count /\ files[i].parent = dir /\ files[i].name = name}

\* The slots fs_find_file_in_dir takes for name: the first one is the answer.
Matches(name, dir) ==
  {i \in Live : i < file_count /\ files[i].parent = dir /\ files[i].name = name}

Found(name) == current_dir # NULL /\ Matches(name, current_dir) # {}
FindFile(name) == Min(Matches(name, current_dir))

\* Mutant: the slot after the ones that are counted.
SlotAtCount == IF file_count < MaxFiles THEN file_count ELSE Min(free_list)

FreeSlot == Min(free_list)

-----------------------------------------------------------------------------
(* Operations.                                                             *)

Init ==
  /\ files = [i \in Slots |-> IF i = Root THEN NewDir(RootName, NULL) ELSE Zeroed]
  /\ free_list = Slots \ {Root}
  /\ file_count = 1
  /\ current_dir = Root
  /\ ret = Answer("init", ZeroName, "SUCCESS")

Reply(call, name, value) ==
  /\ ret' = Answer(call, name, value)
  /\ UNCHANGED <<files, free_list, file_count, current_dir>>

\* The checks that creating a file and making a directory share.
Refused(call, name) ==
  \/ name \in InvalidNames /\ Reply(call, name, "INVALID_PATH")
  \/ /\ name \notin InvalidNames
     /\ \/ Found(name) /\ Reply(call, name, "EXISTS")
        \/ ~Found(name) /\ free_list = {} /\ Reply(call, name, "FULL")

Place(call, name, entry) ==
  /\ name \notin InvalidNames /\ ~Found(name) /\ free_list # {}
  /\ files' = [files EXCEPT ![FreeSlot] = entry]
  /\ free_list' = free_list \ {FreeSlot}
  /\ file_count' = file_count + 1
  /\ ret' = Answer(call, name, "SUCCESS")
  /\ UNCHANGED current_dir

FsCreateWithPerms(name, perms) ==
  Refused("create", name) \/ Place("create", name, NewFile(name, perms))

FsCreate(name) == FsCreateWithPerms(name, DefaultPerms)

FsMkdir(name) == Refused("mkdir", name) \/ Place("mkdir", name, NewDir(name, current_dir))

HasChildren(dir) == \E i \in Live : files[i].parent = dir

DeleteError(f) ==
  CASE files[f].is_open -> "FILE_OPEN"
    [] ~files[f].is_open /\ f = Root -> "INVALID_PATH"
    [] ~files[f].is_open /\ f # Root /\ files[f].is_dir /\ HasChildren(f) -> "NOT_EMPTY"
    [] OTHER -> "SUCCESS"

\* What memset leaves of a deleted entry.
Erased(entry) == Zeroed

FsDelete(name) ==
  \/ ~Found(name) /\ Reply("delete", name, "NOT_FOUND")
  \/ /\ Found(name)
     /\ LET f == FindFile(name)
        IN \/ DeleteError(f) # "SUCCESS" /\ Reply("delete", name, DeleteError(f))
           \/ /\ DeleteError(f) = "SUCCESS"
              /\ files' = [files EXCEPT ![f] = Erased(files[f])]
              /\ free_list' = free_list \cup {f}
              /\ file_count' = file_count - 1
              /\ current_dir' = IF current_dir = f THEN files[f].parent ELSE current_dir
              /\ ret' = Answer("delete", name, "SUCCESS")

UpdateFile(f, entry) ==
  /\ files' = [files EXCEPT ![f] = entry]
  /\ UNCHANGED <<free_list, file_count, current_dir>>

FsOpen(name) ==
  \/ ~Found(name) /\ Reply("open", name, "NOT_FOUND")
  \/ /\ Found(name)
     /\ LET f == FindFile(name)
        IN \/ files[f].is_dir /\ Reply("open", name, "INVALID_PATH")
           \/ ~files[f].is_dir /\ files[f].is_open /\ Reply("open", name, "FILE_OPEN")
           \/ /\ ~files[f].is_dir /\ ~files[f].is_open
              /\ UpdateFile(f, [files[f] EXCEPT !.is_open = TRUE, !.position = 0])
              /\ ret' = Answer("open", name, "SUCCESS")

FsClose(name) ==
  \/ ~Found(name) /\ Reply("close", name, "NOT_FOUND")
  \/ /\ Found(name)
     /\ LET f == FindFile(name)
        IN \/ ~files[f].is_open /\ Reply("close", name, "NOT_OPEN")
           \/ /\ files[f].is_open
              /\ UpdateFile(f, [files[f] EXCEPT !.is_open = FALSE])
              /\ ret' = Answer("close", name, "SUCCESS")

FsSeek(name, offset) ==
  \/ ~Found(name) /\ Reply("seek", name, "NOT_FOUND")
  \/ /\ Found(name)
     /\ LET f == FindFile(name)
        IN \/ ~files[f].is_open /\ Reply("seek", name, "NOT_OPEN")
           \/ files[f].is_open /\ offset > files[f].size /\ Reply("seek", name, "SEEK_BOUNDS")
           \/ /\ files[f].is_open /\ offset <= files[f].size
              /\ UpdateFile(f, [files[f] EXCEPT !.position = offset])
              /\ ret' = Answer("seek", name, "SUCCESS")

\* The name is of an open file that permits the access.
Accessible(name, perm) ==
  /\ Found(name)
  /\ LET e == files[FindFile(name)] IN e.is_open /\ ~e.is_dir /\ perm \in e.permissions

\* A read or a write answers the number of bytes, here the new position less the old.
FsRead(name, length) ==
  \/ ~(length > 0 /\ Accessible(name, "READ")) /\ Reply("read", name, 0)
  \/ /\ length > 0 /\ Accessible(name, "READ")
     /\ LET f == FindFile(name)
            available == Max({files[f].size - files[f].position, 0})
            bytes == Min({length, available})
        IN /\ UpdateFile(f, [files[f] EXCEPT !.position = @ + bytes])
           /\ ret' = Answer("read", name, bytes)

\* Mutant: the buffer has only whole blocks of data.
ResizedDown(entry, new_size) ==
  LET size == Min({new_size, MaxFileSize})
  IN [entry EXCEPT !.size = size,
                   !.allocated_size = IF size > @ THEN (size \div BlockSize) * BlockSize ELSE @]

\* fs_resize_file: the size is cut at MaxFileSize, the buffer only grows.
Resized(entry, new_size) ==
  LET size == Min({new_size, MaxFileSize})
      blocks == (size + BlockSize - 1) \div BlockSize
  IN [entry EXCEPT !.size = size,
                   !.allocated_size = IF size > @ THEN blocks * BlockSize ELSE @]

\* fs_resize_file refuses a directory.
ResizeRefused(entry) == entry.is_dir

\* The bytes are copied whether or not the resized buffer holds them.
Written(entry, length) ==
  LET end == entry.position + length
      resized == IF end > entry.size THEN Resized(entry, end) ELSE entry
  IN [resized EXCEPT !.position = end, !.size = Max({@, end})]

FsWrite(name, length) ==
  \/ ~(length > 0 /\ Accessible(name, "WRITE")) /\ Reply("write", name, 0)
  \/ /\ length > 0 /\ Accessible(name, "WRITE")
     /\ LET f == FindFile(name)
        IN /\ files[f].position + length <= MaxPosition
           /\ UpdateFile(f, Written(files[f], length))
           /\ ret' = Answer("write", name, length)

FsChdir(name) ==
  \/ ~Found(name) /\ Reply("chdir", name, "NOT_FOUND")
  \/ /\ Found(name)
     /\ LET f == FindFile(name)
        IN \/ ~files[f].is_dir /\ Reply("chdir", name, "INVALID_PATH")
           \/ /\ files[f].is_dir
              /\ current_dir' = f
              /\ ret' = Answer("chdir", name, "SUCCESS")
              /\ UNCHANGED <<files, free_list, file_count>>

\* fs_chdir("..")
FsChdirUp ==
  LET parent == files[current_dir].parent
  IN \/ parent = NULL /\ Reply("chdir_up", ZeroName, "INVALID_PATH")
     \/ /\ parent # NULL
        /\ current_dir' = parent
        /\ ret' = Answer("chdir_up", ZeroName, "SUCCESS")
        /\ UNCHANGED <<files, free_list, file_count>>

\* The directories fs_getcwd walks through: Ancestor[n] is n levels up.
Ancestor ==
  LET up[n \in 0 .. MaxFiles] ==
        IF n = 0 THEN current_dir
        ELSE IF up[n - 1] = NULL THEN NULL ELSE files[up[n - 1]].parent
  IN up

-----------------------------------------------------------------------------
(* Callers.                                                                *)

\* Operations that change the directory tree but delete nothing.
Grow(name) ==
  FsCreate(name) \/ FsMkdir(name) \/ \E perms \in PermInputs : FsCreateWithPerms(name, perms)

Use(name) ==
  \/ FsOpen(name)
  \/ FsClose(name)
  \/ FsChdir(name)
  \/ \E offset \in Offsets : FsSeek(name, offset)
  \/ \E length \in Lengths : FsRead(name, length)

Write(name) == \E length \in Lengths : FsWrite(name, length)

Next ==
  \/ \E name \in Names : Grow(name) \/ FsDelete(name) \/ Use(name) \/ Write(name)
  \/ FsChdirUp

Spec == Init /\ [][Next]_vars

-----------------------------------------------------------------------------
(* Properties.                                                             *)

Entry ==
  [name : Names \cup {RootName, ZeroName}, parent : Slots \cup {NULL},
   is_dir : BOOLEAN, is_open : BOOLEAN, size : Nat, allocated_size : Nat,
   position : Nat, permissions : SUBSET AllPerms]

\* Types; a free slot is all zeros, so nothing of a deleted file is left for the next one.
TypeOK ==
  /\ files \in [Slots -> Entry]
  /\ free_list \subseteq Slots
  /\ file_count \in Nat
  /\ current_dir \in Slots
  /\ \A i \in free_list : files[i] = Zeroed

\* file_count, which fs_create and fs_mkdir increment and fs_delete decrements, is the
\* number of slots in use (fs.c:164, 212, 376).
CountIsExact == file_count = Cardinality(Live)

\* The root stays, every other entry is in a directory that exists, and so does the
\* current directory: deleting never leaves a pointer into a free slot (fs.c:188-199).
NoDanglingParent ==
  /\ Root \in Live /\ files[Root].is_dir /\ files[Root].parent = NULL
  /\ \A i \in Live \ {Root} : files[i].parent \in Live /\ files[files[i].parent].is_dir
  /\ current_dir \in Live /\ files[current_dir].is_dir

\* Walking up from the current directory ends at the root within the array of fs_getcwd
\* (fs.c:405-413), although slots are reused.
CwdReachesRoot ==
  \E n \in 0 .. MaxFiles - 1 :
    Ancestor[n] = Root /\ \A k \in 0 .. n : Ancestor[k] \in Live

\* The files form a tree of the counted slots, with the current directory in it, whatever is
\* created and deleted and however slots are reused (fs.c:132-215, 334-420).
TreeIsWhole == CountIsExact /\ NoDanglingParent /\ CwdReachesRoot

\* What was just created is found by its name, although the new entry may not be in the
\* last slot and the search stops at file_count (fs.c:17-23 against 95; lib/libc/unistd.c:36-41).
CreatedIsFound ==
  [][file_count' = file_count + 1 =>
       \A i \in Slots, name \in Names :
         i \in free_list /\ i \notin free_list' /\ files'[i].name = name =>
           (Found(name) /\ FindFile(name) = i)']_vars

\* The position is inside the file, so reading never goes past what was written
\* (fs.c:265-272, 317).
PositionInFile == \A i \in Live : files[i].position <= files[i].size

\* The bytes of a file are inside its buffer, whose size is a number of blocks (fs.9:88).
BytesInBuffer == \A i \in Live : files[i].size <= files[i].allocated_size

\* As long as a file is not larger than MAX_FILE_SIZE its bytes are inside its buffer, whatever
\* was written, cut and truncated before (fs.c:112-127, 295-300).
SizeWithinAllocation ==
  \A i \in Live : files[i].size <= MaxFileSize => files[i].size <= files[i].allocated_size

\* An operation answers FS_ERR_NOT_FOUND only for a name the current directory does not
\* have (fs.9:62-63).
NotFoundIsReal ==
  ret.value = "NOT_FOUND" =>
    \A i \in Live : files[i].parent = current_dir => files[i].name # ret.name

NoHoles == \A i \in Live, j \in Slots : j < i => j \in Live

\* While there is no free slot in front of one in use, a lookup sees every entry although it
\* stops at file_count (fs.c:95): FS_ERR_NOT_FOUND is right.
CompleteWithoutHoles == NoHoles => NotFoundIsReal
=============================================================================
