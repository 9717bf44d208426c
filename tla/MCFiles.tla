------------------------------- MODULE MCFiles -------------------------------
(***************************************************************************)
(* An instance of Fd for TLC in two modes, chosen at the start.  In the    *)
(* mode tree the calls of fs.c build and cut any tree over two names and   *)
(* an invalid one, with empty files; in the mode data they and descriptors *)
(* read, write and seek in files of one name, three only if all are empty. *)
(***************************************************************************)
EXTENDS Fd

VARIABLE mode

MCInvalidNames == {".."}
MCPermInputs == {{"READ"}, {"WRITE"}}
MCSeekBy == {-1, 0, 2}

\* Bounds of the two modes.
StaysEmpty ==
  /\ \A i \in Slots : files'[i].size = 0 /\ files'[i].permissions \in {{}, DefaultPerms, AllPerms}
  /\ ret'.call \notin {"seek", "read", "write"}
OneName ==
  /\ \A i \in Slots : files'[i].name \in {ZeroName, RootName, "a"}
  /\ free_list' = {} =>
       \A i \in Slots : files'[i].size = 0 /\ files'[i].permissions \in {DefaultPerms, AllPerms}

FilesInit == FdInit /\ mode \in {"tree", "data"}

FilesNext ==
  \/ mode = "tree" /\ ByName /\ StaysEmpty /\ UNCHANGED mode
  \/ mode = "data" /\ ByName /\ OneName /\ ret'.name \in {ZeroName, "a"} /\ UNCHANGED mode
  \/ mode = "data" /\ Opening /\ OneName /\ UNCHANGED mode
  \/ mode = "data" /\ ByDescriptor /\ UNCHANGED <<exclusive, mode>>

FilesSpec == FilesInit /\ [][FilesNext]_<<fdVars, mode>>

-----------------------------------------------------------------------------
(* A property that holds in one of the modes.                              *)

\* As long as the files built by name leave no free slot in front of one in use, a lookup
\* sees every entry, although it stops at file_count (fs.c:95).
LookupsAreComplete == mode = "tree" => CompleteWithoutHoles
=============================================================================
