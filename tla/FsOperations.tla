---------------------------- MODULE FsOperations ----------------------------
(***************************************************************************)
(* The filesystem operations of fs/operations.hpp, as tables: what the     *)
(* callback of each raw operation is handed, and which of them the owned   *)
(* layer of namespace uv::fs offers.                                       *)
(*                                                                         *)
(* A result is a "number" (status, descriptor or count), or it reads the   *)
(* native request: its "statbuf", the memory behind its "ptr" or "path",   *)
(* the "entries" of a scan, the "dirents" of a directory read.  An opened  *)
(* "directory" is handed over to the callback.                             *)
(***************************************************************************)
EXTENDS TLC

OpenClose == "open" :> "number" @@ "close" :> "number"
ReadWrite == "read" :> "number" @@ "write" :> "number"

PathUpdates ==
  "stat" :> "statbuf" @@ "unlink" :> "number" @@ "rename" :> "number" @@ "mkdir" :> "number"

TemporaryNames == "mkdtemp" :> "path" @@ "mkstemp" :> "path" @@ "rmdir" :> "number"

StatusReads == "fstat" :> "statbuf" @@ "lstat" :> "statbuf" @@ "statfs" :> "ptr"

Permissions == [o \in {"access", "chmod", "fchmod", "chown", "fchown", "lchown"} |-> "number"]

TimesAndSync ==
  [o \in {"utime", "futime", "lutime", "fsync", "fdatasync", "ftruncate"} |-> "number"]

Links == "link" :> "number" @@ "symlink" :> "number" @@ "realpath" :> "ptr" @@ "readlink" :> "ptr"

Copies == "copyfile" :> "number" @@ "sendfile" :> "number"

Directories ==
  "scandir" :> "entries" @@ "opendir" :> "directory" @@ "readdir" :> "dirents"
    @@ "closedir" :> "number"

\* What the callback of a raw operation is handed.
ResultOf ==
  OpenClose @@ ReadWrite @@ PathUpdates @@ TemporaryNames @@ StatusReads @@ Permissions
    @@ TimesAndSync @@ Links @@ Copies @@ Directories

RawOperations == DOMAIN ResultOf

-----------------------------------------------------------------------------
(* The owned layer.                                                        *)

OwnedFile == {"open", "close", "read", "read_owned", "write", "write_copy"}
OwnedPaths == {"stat", "unlink", "rename", "mkdir", "mkdtemp", "mkstemp", "rmdir"}
OwnedStatus == {"fstat", "lstat", "statfs", "access", "chmod", "fchmod"}
OwnedTimes == {"chown", "fchown", "lchown", "utime", "futime", "lutime"}
OwnedSync == {"fsync", "fdatasync", "ftruncate", "link", "symlink"}
OwnedQueries == {"realpath", "readlink", "copyfile", "sendfile", "scandir"}

OwnedOperations ==
  OwnedFile \cup OwnedPaths \cup OwnedStatus \cup OwnedTimes \cup OwnedSync \cup OwnedQueries

\* The raw operation behind an owned one; read_owned and write_copy keep the
\* bytes in the state of the operation.
RawOf(o) == CASE o = "read_owned" -> "read" [] o = "write_copy" -> "write" [] OTHER -> o

\* Results that libuv's cleanup, or the end of the request, invalidates.
ReadsRequest(result) == result \in {"statbuf", "ptr", "path", "entries", "dirents"}

\* The result an owned callback gets: its own copy of what the request held.  (The
\* bytes of read_owned leave the state with it.)
Copied_Views(result) == result
Copied(result) == "number"

=============================================================================
