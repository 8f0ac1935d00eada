------------------------------ MODULE FileTree ------------------------------
(***************************************************************************)
(* What creating files promises: a name appears together with the file it  *)
(* names, whole, and the file's extents on the data servers belong to no   *)
(* other.  Nothing is ever taken away.  Names need not be unique: a        *)
(* directory may hold one name for several files.  An extent whose handle  *)
(* is Hole was never allocated.  Nothing is promised once the database is   *)
(* broken.                                                                 *)
(***************************************************************************)
EXTENDS Naturals, Sequences

CONSTANTS RootDir,  \* the root directory
          Copies,   \* extents of a regular file, all copies counted
          Hole      \* the handle of an extent that could not be allocated

VARIABLES entry,    \* set of [dir, name, file]
          place,    \* the named files: kind and sequence of [srv, hdl]
          broken    \* the database has given wrong answers

Allocated(rows) == {e \in {rows[i] : i \in DOMAIN rows} : e.hdl # Hole}

Whole(f) == Len(f.rows) = IF f.mode = "dir" THEN 0 ELSE Copies

FileTreeInit ==
    /\ entry = {}
    /\ broken = FALSE
    /\ place = [f \in {RootDir} |-> [mode |-> "dir", rows |-> <<>>]]

\* A new file becomes visible under a visible directory.
Publish(dir, name, file, contents) ==
    /\ dir \in DOMAIN place
    /\ place[dir].mode = "dir"
    /\ file \notin DOMAIN place
    /\ Whole(contents)
    /\ \A f \in DOMAIN place : Allocated(place[f].rows) \cap Allocated(contents.rows) = {}
    /\ entry' = entry \cup {[dir |-> dir, name |-> name, file |-> file]}
    /\ place' = [f \in DOMAIN place \cup {file} |->
                    IF f = file THEN contents ELSE place[f]]

FileTreeNext ==
    \/ broken'
    \/ ~broken' /\ ~broken /\ \E e \in entry' : Publish(e.dir, e.name, e.file, place'[e.file])

FileTreeSpec == FileTreeInit /\ [][FileTreeNext]_<<entry, place, broken>>
=============================================================================
