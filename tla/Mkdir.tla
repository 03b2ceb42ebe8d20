-------------------------------- MODULE Mkdir -------------------------------
(***************************************************************************)
(* file_mkdir of file_io.c, with and without recurse, for Linux 3.1 and    *)
(* later.  It creates the directories of a path one by one while other     *)
(* processes create directories, too.                                      *)
(*                                                                         *)
(* A path is a sequence of names between slashes, of which the length and  *)
(* whether all characters are printable matter; a name of length 0 is      *)
(* what a leading, doubled or trailing slash makes.  The directory of a    *)
(* prefix is named by the number of the prefix's last name, 0 for the one  *)
(* the path starts from.                                                   *)
(***************************************************************************)
EXTENDS Integers, Sequences, FiniteSetsExt

CONSTANT Paths   (* what callers pass, a subset of NamePaths             *)

\* The text before the first slash is a name, too: there is always one.
NamePaths == Seq([len : Nat, printable : BOOLEAN]) \ {<< >>}

VARIABLES
  path,          (* the argument                                         *)
  recurse,       (* the argument                                         *)
  i,             (* the name mkdir_recursive has come to                 *)
  pc,            (* "start", "scan", "make" or "done"                    *)
  ret,           (* the result                                           *)
  exists,        (* the directories of prefixes that exist               *)
  failed         (* the names at which kern_path_create failed though    *)
                 (* the directory was to be created in one that exists   *)

vars == <<path, recurse, i, pc, ret, exists, failed>>

-----------------------------------------------------------------------------

Names == {m \in DOMAIN path : path[m].len > 0}

\* The directory the first n names lead to, and the one it is in.
dir(n) == Max({0} \cup {m \in Names : m <= n})
parent(n) == Max({0} \cup {m \in Names : m < dir(n)})

Init ==
  /\ path \in Paths
  /\ recurse \in BOOLEAN
  /\ exists = {0} /\ failed = {}
  /\ i = 1 /\ pc = "start" /\ ret = 0

return(r) == pc' = "done" /\ ret' = r /\ UNCHANGED i

\* kmalloc for the copy of the path; without recurse there is no copy.
Start ==
  /\ pc = "start"
  /\ \/ /\ recurse
        /\ return(-1)
     \/ /\ recurse
        /\ pc' = "scan"
        /\ UNCHANGED <<i, ret>>
     \/ /\ ~recurse
        /\ pc' = "make" /\ i' = Len(path)
        /\ UNCHANGED ret
  /\ UNCHANGED <<path, recurse, exists, failed>>

\* On to the next name, or the end of the path.
next_name == IF i = Len(path) THEN return(0) ELSE pc' = "scan" /\ i' = i + 1 /\ UNCHANGED ret

\* (tmp_iter - dirname_ptr) > 1, under a comment that only speaks of empty
\* names: those of one character are passed over, too.
ignored(name) == name.len <= 1

\* One name up to its slash.
Scan ==
  /\ pc = "scan"
  /\ \/ /\ ~path[i].printable
        /\ return(-1)
     \/ /\ path[i].printable /\ ignored(path[i])
        /\ next_name
     \/ /\ path[i].printable /\ ~ignored(path[i])
        /\ pc' = "make"
        /\ UNCHANGED <<i, ret>>
  /\ UNCHANGED <<path, recurse, exists, failed>>

\* What becomes of the result of file_mkdir for one directory.
made(r) == IF recurse /\ r = 0 THEN next_name ELSE return(r)

\* kern_path_create fails if the directory exists, if the one it is to be in
\* does not, or for a reason of its own: no memory, no permission, a file of
\* that name.  All of these are 0 to file_mkdir.  Otherwise it keeps the
\* parent locked until vfs_mkdir, whose error is returned, is through.
Make ==
  /\ pc = "make"
  /\ \/ /\ dir(i) \in exists \/ parent(i) \notin exists
        /\ made(0)
        /\ UNCHANGED <<exists, failed>>
     \/ /\ dir(i) \notin exists /\ parent(i) \in exists
        /\ made(0)
        /\ failed' = failed \cup {i}
        /\ UNCHANGED exists
     \/ /\ dir(i) \notin exists /\ parent(i) \in exists
        /\ made(0)
        /\ exists' = exists \cup {dir(i)}
        /\ UNCHANGED failed
     \/ /\ dir(i) \notin exists /\ parent(i) \in exists
        /\ made(-1)
        /\ UNCHANGED <<exists, failed>>
  /\ UNCHANGED <<path, recurse>>

\* Another process creates a directory.
OtherMakes(m) ==
  /\ pc # "done"
  /\ m \notin exists
  /\ parent(m) \in exists
  /\ exists' = exists \cup {m}
  /\ UNCHANGED <<path, recurse, i, pc, ret, failed>>

Next ==
  \/ Start
  \/ Scan
  \/ Make
  \/ \E m \in Names : OtherMakes(m)

Spec == Init /\ [][Next]_vars

-----------------------------------------------------------------------------

\* The directory of name m may be missing although mkdir_recursive goes on.
lost(m) == m \in failed \/ path[m].len = 1

\* With recurse, 0 means that the directory is there with all it is in, who
\* ever created them, unless a name on the way has a single character or
\* kern_path_create failed there for a reason of its own.  The other error
\* that file_mkdir takes for success, a missing parent, is never the first.
ZeroMeansCreated ==
  pc = "done" /\ recurse /\ ret = 0 =>
    \A n \in 0 .. Len(path) : dir(n) \in exists \/ \E m \in 1 .. n : lost(m)
=============================================================================
