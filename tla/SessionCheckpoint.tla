------------------------- MODULE SessionCheckpoint -------------------------
(* The checkpoints of one session: session_checkpoint.c.  A save writes the *)
(* snapshot to a temporary file, whose name depends on the session only,    *)
(* and renames it to the session's next sequence number; a load lists the   *)
(* directory and reads the file with the highest number.  The process may   *)
(* be killed between any two calls and starts again with a new manager,     *)
(* whose sequence starts at 1.                                              *)
(*                                                                          *)
(* Files are inodes: a name that is renamed or written through an open      *)
(* descriptor keeps its inode.  A snapshot is its number.  Its hundred-odd  *)
(* bytes stay in the stream's buffer until fclose, whose result the code    *)
(* does not look at: fwrite does not fail, and on a full disk the file      *)
(* stays empty.                                                             *)
EXTENDS Naturals, Sequences, FiniteSets

CONSTANTS
    Threads,     \* that save and load through the manager
    MaxSaves,    \* bound: snapshots saved
    MaxRestarts  \* bound: times the process is killed

None == 0
Empty == 0
Snapshots == 1..MaxSaves
Inodes == 1..MaxSaves
Seqs == 1..MaxSaves

VARIABLES
    names,     \* the session's checkpoints: inode of each sequence number
    tmp,       \* inode of the temporary file
    data,      \* content of each inode
    seq,       \* mgr->seq
    pc,        \* [Threads -> place]
    fd,        \* [Threads -> inode] written to, or the number a load found
    arg,       \* [Threads -> snapshot] being saved, or history: saved last
               \* when the load began
    saves,     \* snapshots taken
    restarts,  \* times the process was killed
    saved,     \* history: the last snapshot whose save returned 0
    result,    \* history: [got, want]: what the last load returned, and what
               \* had been saved last when it began
    spoilt     \* history: causes for which no promise is kept here

vars == <<names, tmp, data, seq, pc, fd, arg, saves, restarts, saved, result, spoilt>>

\* Variants of the code stand before the definition they change.  The first
\* checkpoint in the directory.
Lowest(S) == CHOOSE s \in S : \A r \in S : s <= r
Highest(S) == CHOOSE s \in S : \A r \in S : r <= s

Init ==
    /\ names = [s \in {} |-> None]
    /\ tmp = None
    /\ data = <<>>
    /\ seq = 1
    /\ pc = [t \in Threads |-> "idle"]
    /\ fd = [t \in Threads |-> None]
    /\ arg = [t \in Threads |-> None]
    /\ saves = 0
    /\ restarts = 0
    /\ saved = None
    /\ result = [got |-> None, want |-> None]
    /\ spoilt = {}

Goto(t, place, file, snapshot) ==
    /\ pc' = [pc EXCEPT ![t] = place]
    /\ fd' = [fd EXCEPT ![t] = file]
    /\ arg' = [arg EXCEPT ![t] = snapshot]
Return(t) == Goto(t, "idle", None, None)

Saving == {t \in Threads : pc[t] \in {"write", "rename"}}

----------------------------------------------------------------------------
(* checkpoint_save                                                          *)

\* fopen(tmp_path, "wb"): a new file, or the old one with nothing in it.
Truncated == IF tmp = None THEN Append(data, Empty) ELSE [data EXCEPT ![tmp] = Empty]

\* Variant: the checkpoint is written under its own name.
OpenInPlace(t) ==
    /\ pc[t] = "idle"
    /\ saves < MaxSaves
    /\ saves' = saves + 1
    /\ data' = Append(data, Empty)
    /\ tmp' = Len(data) + 1
    /\ names' = [r \in DOMAIN names \cup {seq} |-> IF r = seq THEN tmp' ELSE names[r]]
    /\ Goto(t, "write", tmp', saves')
    /\ UNCHANGED <<seq, restarts, saved, result, spoilt>>

OpenTmp(t) ==
    /\ pc[t] = "idle"
    /\ saves < MaxSaves
    /\ saves' = saves + 1
    /\ data' = Truncated
    /\ tmp' = IF tmp = None THEN Len(data) + 1 ELSE tmp
    /\ Goto(t, "write", tmp', saves')
    /\ spoilt' = spoilt \cup IF Saving # {} THEN {"overlap"} ELSE {}
    /\ UNCHANGED <<names, seq, restarts, saved, result>>

WriteTmp(t) ==
    /\ pc[t] = "write"
    /\ \/ data' = [data EXCEPT ![fd[t]] = arg[t]] /\ UNCHANGED spoilt
       \/ spoilt' = spoilt \cup {"full"} /\ UNCHANGED data
    /\ Goto(t, "rename", fd[t], arg[t])
    /\ UNCHANGED <<names, tmp, seq, saves, restarts, saved, result>>

\* Whether or not the rename succeeds, the number is used up.  It fails, with
\* the temporary file removed, when another save has taken that file away.
Named(s) == [r \in DOMAIN names \cup {s} |-> IF r = s THEN tmp ELSE names[r]]

RenameTmp(t) ==
    /\ pc[t] = "rename"
    /\ seq' = seq + 1
    /\ \/ /\ tmp # None
          /\ names' = Named(seq)
          /\ saved' = arg[t]
       \/ UNCHANGED <<names, saved>>
    /\ tmp' = None
    /\ Return(t)
    /\ UNCHANGED <<data, saves, restarts, result, spoilt>>

----------------------------------------------------------------------------
(* checkpoint_load, checkpoint_delete                                       *)

\* opendir ... closedir: the name with the highest sequence number.
FindBest(t) ==
    /\ pc[t] = "idle"
    /\ DOMAIN names # {}
    /\ Goto(t, "read", Highest(DOMAIN names), saved)
    /\ UNCHANGED <<names, tmp, data, seq, saves, restarts, saved, result, spoilt>>

\* The name is opened only now: another file may have taken it over, or none
\* may be left.  A file with nothing in it is too short to be a state.
ReadBest(t) ==
    /\ pc[t] = "read"
    /\ result' = IF fd[t] \in DOMAIN names
                 THEN [got |-> data[names[fd[t]]], want |-> arg[t]] ELSE result
    /\ Return(t)
    /\ UNCHANGED <<names, tmp, data, seq, saves, restarts, saved, spoilt>>

checkpoint_delete(t) ==
    /\ pc[t] = "idle"
    /\ DOMAIN names # {}
    /\ names' = [s \in {} |-> None]
    /\ saved' = None
    /\ UNCHANGED <<tmp, data, seq, pc, fd, arg, saves, restarts, result, spoilt>>

\* The process is killed and starts again: checkpoint_manager_create.
Restart ==
    /\ restarts < MaxRestarts
    /\ restarts' = restarts + 1
    /\ seq' = 1
    /\ pc' = [t \in Threads |-> "idle"]
    /\ fd' = [t \in Threads |-> None]
    /\ arg' = [t \in Threads |-> None]
    /\ UNCHANGED <<names, tmp, data, saves, saved, result, spoilt>>

Next ==
    \/ \E t \in Threads :
        \/ OpenTmp(t) \/ WriteTmp(t) \/ RenameTmp(t)
        \/ FindBest(t) \/ ReadBest(t) \/ checkpoint_delete(t)
    \/ Restart

Spec == Init /\ [][Next]_vars

----------------------------------------------------------------------------
(* Properties                                                               *)

TypeOK ==
    /\ DOMAIN names \subseteq Seqs
    /\ \A s \in DOMAIN names : names[s] \in Inodes
    /\ tmp \in Inodes \cup {None}
    /\ data \in Seq(Snapshots \cup {Empty})
    /\ seq \in Seqs \cup {MaxSaves + 1}
    /\ pc \in [Threads -> {"idle", "write", "rename", "read"}]
    /\ fd \in [Threads -> Inodes \cup {None}]
    /\ arg \in [Threads -> Snapshots \cup {None}]
    /\ saves \in 0..MaxSaves
    /\ restarts \in 0..MaxRestarts
    /\ saved \in Snapshots \cup {None}
    /\ spoilt \subseteq {"overlap", "full"}

\* A kill at any point costs no checkpoint: once a save has returned 0, there is
\* a file for a load to choose, and each it may choose holds a snapshot, before,
\* during and after later saves and restarts.  (Not if two saves overlapped, or
\* the disk was full.)
KillSafe ==
    saved # None /\ spoilt = {} =>
        /\ DOMAIN names # {}
        /\ \A s \in DOMAIN names : data[names[s]] # Empty

\* While the process lives, a load returns a snapshot at least as recent as
\* the last one saved when it began, with saves and deletions going on.
LoadIsRecent == restarts = 0 /\ spoilt = {} => result.got >= result.want

\* What session_checkpoint.h says of checkpoint_load: "load the most-recent
\* checkpoint", with one thread, room on the disk, and restarts.
MostRecent == spoilt = {} => result.got >= result.want
=============================================================================
