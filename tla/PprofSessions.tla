--------------------------- MODULE PprofSessions ---------------------------
(***************************************************************************)
(* The table of viewers (`go tool pprof', `go tool trace') that the ops    *)
(* centre keeps: one session per opened file, at most MaxPprofSessions.    *)
(*                                                                         *)
(* Everything here but the end of a viewer happens under pprofMutex, the   *)
(* 1.5 s in which a new viewer starts included.  Every viewer has a        *)
(* goroutine that waits for its end and then takes the mutex to remove its *)
(* session, by which time the file may have another one.                   *)
(*                                                                         *)
(* The table is a sequence, least recently used first: LastAccess is the   *)
(* position in it, and `stale' says how many sessions at its front have    *)
(* not been used for 15 minutes.  A viewer is a number, and a session is   *)
(* known by its viewer.  A viewer is the `go' command that was started and *)
(* that Kill and Wait are about; the tool proper is a child of it, and may *)
(* go on after a Kill.                                                     *)
(*                                                                         *)
(* Definitions whose name starts with Bug are faulty variants of the       *)
(* definition that follows them; no specification uses them.               *)
(***************************************************************************)
EXTENDS Naturals, Sequences, SequencesExt

CONSTANTS Files, NoFile,      \* the profiles that can be viewed
          MaxPprofSessions,   \* 2
          MaxTools            \* bound: viewers started

ASSUME SessionBounds == /\ MaxPprofSessions \in Nat \ {0} /\ MaxTools \in Nat
                        /\ NoFile \notin Files

VARIABLES
    sessions,   \* the viewers in the table
    stale,      \* how many of them are idle for too long
    viewer      \* viewer[t]: its file and its state

sessionVars == <<sessions, stale, viewer>>

Tools == 1 .. MaxTools

\* States of a viewer: "unused"; "running"; "killed": Kill was called; "exited",
\* "signaled": it ended by itself or by a signal, and Wait has set its ProcessState;
\* "over": its goroutine has ended too.
SessionsInit ==
    /\ sessions = <<>> /\ stale = 0
    /\ viewer = [t \in Tools |-> [file |-> NoFile, state |-> "unused"]]

\* Table s after the sessions of the viewers in D have been deleted.
Drop(s, D) ==
    LET Left[i \in 0 .. Len(s)] ==
            IF i = 0 THEN <<>>
            ELSE IF s[i] \in D THEN Left[i - 1] ELSE Append(Left[i - 1], s[i])
    IN  Left[Len(s)]

Without(D) == Drop(sessions, D)

\* The table after a loop that drops the sessions whose viewer has exited by
\* itself.  ProcessState is written without the mutex: each such viewer may or
\* may not be seen to have exited.
Cleaned ==
    {Without(D) : D \in SUBSET {t \in ToSet(sessions) : viewer[t].state = "exited"}}

\* How many of the idle sessions are in the table that is left.
StillStale(table) == Len(SelectSeq(SubSeq(sessions, 1, stale), LAMBDA t : Contains(table, t)))

SetTable(table) == sessions' = table /\ stale' = StillStale(table)

\* Process.Kill has no effect on a process that has ended.
Kill(D) ==
    [t \in Tools |-> IF t \in D /\ viewer[t].state = "running"
                     THEN [viewer[t] EXCEPT !.state = "killed"] ELSE viewer[t]]

HasSession(table, f) == \E i \in DOMAIN table : viewer[table[i]].file = f

BugReuse(f) ==
    /\ \E table \in Cleaned : \E i \in DOMAIN table :
         /\ viewer[table[i]].file = f
         /\ sessions' = Append(RemoveAt(table, i), table[i])
    /\ stale' = 0
    /\ UNCHANGED viewer

\* GetOrStartPprofSession for a file that has a session: it is now the most
\* recently used, so it is idle no more.
Reuse(f) ==
    /\ \E table \in Cleaned : \E i \in DOMAIN table :
         /\ viewer[table[i]].file = f
         /\ sessions' = Append(RemoveAt(table, i), table[i])
         /\ stale' = StillStale(RemoveAt(table, i))
    /\ UNCHANGED viewer

\* At the limit the least recently used session has to go.
Evicted(table) == IF Len(table) >= MaxPprofSessions THEN {Head(table)} ELSE {}

\* ... and for a file that has none: a session is evicted, its viewer killed, and a
\* new viewer started.  Without a free port, or if the viewer cannot be started,
\* the request fails, after the eviction.
StartTool(f, mayFail) ==
    \E table \in Cleaned : \E t \in Tools :
        LET rest == Drop(table, Evicted(table)) IN
        /\ ~HasSession(table, f)
        /\ viewer[t].state = "unused" /\ \A u \in 1 .. t - 1 : viewer[u].state # "unused"
        /\ stale' = StillStale(rest)
        /\ \/ /\ sessions' = Append(rest, t)
              /\ viewer' = [Kill(Evicted(table)) EXCEPT ![t] = [file |-> f, state |-> "running"]]
           \/ /\ mayFail
              /\ sessions' = rest
              /\ viewer' = Kill(Evicted(table))

\* A viewer ends by itself (its file cannot be read, its port is taken) or by a
\* signal, that of Kill or another; Wait returns.
ToolEnds(t) ==
    /\ \/ /\ viewer[t].state \in {"running", "killed"}
          /\ viewer' = [viewer EXCEPT ![t].state = "signaled"]
       \/ /\ viewer[t].state = "running"
          /\ viewer' = [viewer EXCEPT ![t].state = "exited"]
    /\ UNCHANGED <<sessions, stale>>

BugReap(t) ==
    /\ viewer[t].state \in {"exited", "signaled"}
    /\ viewer' = [viewer EXCEPT ![t].state = "over"]
    /\ SetTable(Without({u \in Tools : viewer[u].file = viewer[t].file}))

\* The goroutine of viewer t, after Wait: its file's session is removed, if it is
\* still the session of this viewer.
Reap(t) ==
    /\ viewer[t].state \in {"exited", "signaled"}
    /\ viewer' = [viewer EXCEPT ![t].state = "over"]
    /\ SetTable(Without({u \in Tools : viewer[u].file = viewer[t].file /\ u = t}))

\* A tick of the cleanup monitor: the idle sessions go too, and their viewers are
\* killed.
Cleanup ==
    LET old == ToSet(SubSeq(sessions, 1, stale)) IN
    /\ \E table \in Cleaned : SetTable(Drop(table, old))
    /\ viewer' = Kill(old)

\* Every session is killed and removed, as for a folder whose name is a prefix of
\* all the files.
KillAll ==
    /\ viewer' = Kill(ToSet(sessions))
    /\ sessions' = <<>> /\ stale' = 0

\* Fifteen minutes have passed since the last access to one more session.
Idle ==
    /\ stale < Len(sessions)
    /\ stale' = stale + 1
    /\ UNCHANGED <<sessions, viewer>>
=============================================================================
