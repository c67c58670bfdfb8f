--------------------------- MODULE ControlSocket ---------------------------
(***************************************************************************)
(* The control socket's file (Server::bind, SocketFile and Running of      *)
(* src/control.rs, on Unix): services started with one configuration find  *)
(* a stale or a live socket at its path, replace the stale one, and remove *)
(* their own when they stop.  Each system call is a step.  Inode numbers   *)
(* of removed files are given again, as file systems do.                   *)
(***************************************************************************)
EXTENDS Naturals

CONSTANTS
    Services,    \* processes started with one configuration
    Inodes,      \* inode numbers, positive
    MaxStarts    \* bound: starts in one behaviour

ASSUME CtlAssumption == Inodes \subseteq Nat \ {0}

VARIABLES
    fits,        \* the path fits sockaddr_un
    sockFile,    \* the file at the path: [ino, kind], ino 0 for none
    svcPc,       \* where each service is
    seenIno,     \* bind: the inode its first symlink_metadata saw
    ownIno,      \* SocketFile.inode
    listener,    \* the inode its UnixListener is bound to, 0 for none
    accepting,   \* listen() was called on it
    starts,      \* starts so far
    raced        \* history: a socket appeared under a pending removal

ctlVars == <<fits, sockFile, svcPc, seenIno, ownIno, listener, accepting, starts,
             raced>>

NoFile == [ino |-> 0, kind |-> "none"]

CtlInit ==
    /\ fits \in BOOLEAN
    /\ \E i \in Inodes :
          sockFile \in {NoFile} \cup [ino : {i}, kind : {"socket", "other", "foreign"}]
    /\ svcPc = [s \in Services |-> "down"]
    /\ seenIno = [s \in Services |-> 0]
    /\ ownIno = [s \in Services |-> 0]
    /\ listener = [s \in Services |-> 0]
    /\ accepting = [s \in Services |-> FALSE]
    /\ starts = 0
    /\ raced = FALSE

Step(s, label) == svcPc' = [svcPc EXCEPT ![s] = label]

\* The process is gone or its start refused: what it held is closed, and the
\* file it bound stays where it is.
Gone(s) ==
    /\ Step(s, "down")
    /\ listener' = [listener EXCEPT ![s] = 0]
    /\ accepting' = [accepting EXCEPT ![s] = FALSE]
    /\ ownIno' = [ownIno EXCEPT ![s] = 0]
    /\ seenIno' = [seenIno EXCEPT ![s] = 0]

Go(s, label) ==
    Step(s, label) /\ UNCHANGED <<seenIno, ownIno, listener, accepting>>

\* start(), and bind() up to the first symlink_metadata: the control channel
\* is optional for a path that does not fit; an occupied path, or another
\* user's socket (unless run by root), is refused.
Start(s) ==
    /\ svcPc[s] = "down" /\ starts < MaxStarts
    /\ starts' = starts + 1
    /\ IF ~fits THEN Go(s, "uncontrolled")
       ELSE IF sockFile.kind = "none" THEN Go(s, "binding")
       ELSE IF sockFile.kind = "socket"
       THEN /\ Step(s, "probing")
            /\ seenIno' = [seenIno EXCEPT ![s] = sockFile.ino]
            /\ UNCHANGED <<ownIno, listener, accepting>>
       ELSE Go(s, "down")
    /\ UNCHANGED <<fits, sockFile, raced>>

Owners == {s \in Services : listener[s] # 0 /\ listener[s] = sockFile.ino}

\* connect() is refused: no process accepts on the socket.
ProbedStale(s) == sockFile # NoFile /\ \A o \in Owners : ~accepting[o]

\* The probe: only ConnectionRefused lets the start go on.
Probe(s) ==
    /\ svcPc[s] = "probing"
    /\ IF ProbedStale(s) THEN Go(s, "checking") ELSE Gone(s)
    /\ raced' = (raced \/ \E o \in Owners : ~accepting[o])
    /\ UNCHANGED <<fits, sockFile, starts>>

\* Mutant: the file is not looked at again.
UnchangedAssumed(s) == TRUE

UnchangedFile(s) == sockFile.ino = seenIno[s]

\* The second symlink_metadata.
Check(s) ==
    /\ svcPc[s] = "checking"
    /\ IF sockFile # NoFile /\ UnchangedFile(s) THEN Go(s, "removing") ELSE Gone(s)
    /\ UNCHANGED <<fits, sockFile, starts, raced>>

RemoveStale(s) ==
    /\ svcPc[s] = "removing"
    /\ IF sockFile = NoFile THEN Gone(s) /\ UNCHANGED sockFile
                            ELSE sockFile' = NoFile /\ Go(s, "binding")
    /\ UNCHANGED <<fits, starts, raced>>

\* A removal that is decided, or will be because the number is the same.
PendingRemoval(t, ino) ==
    \/ svcPc[t] \in {"removing", "unlinking"}
    \/ svcPc[t] = "checking" /\ seenIno[t] = ino

\* UnixListener::bind creates the file, unless there is one, ...
BindSocket(s) ==
    /\ svcPc[s] = "binding"
    /\ IF sockFile # NoFile
       THEN Gone(s) /\ UNCHANGED <<sockFile, raced>>
       ELSE \E ino \in Inodes \ {listener[t] : t \in Services} :
              /\ sockFile' = [ino |-> ino, kind |-> "socket"]
              /\ listener' = [listener EXCEPT ![s] = ino]
              /\ Step(s, "bound")
              /\ raced' = (raced \/ \E t \in Services \ {s} : PendingRemoval(t, ino))
              /\ UNCHANGED <<seenIno, ownIno, accepting>>
    /\ UNCHANGED <<fits, starts>>

\* ... and listens.
Listen(s) ==
    /\ svcPc[s] = "bound"
    /\ Step(s, "owning")
    /\ accepting' = [accepting EXCEPT ![s] = TRUE]
    /\ UNCHANGED <<fits, sockFile, seenIno, ownIno, listener, starts, raced>>

\* The inode that SocketFile will remove is read from the path.
Own(s) ==
    /\ svcPc[s] = "owning"
    /\ IF sockFile = NoFile THEN Gone(s)
       ELSE /\ ownIno' = [ownIno EXCEPT ![s] = sockFile.ino]
            /\ Step(s, "securing")
            /\ UNCHANGED <<seenIno, listener, accepting>>
    /\ UNCHANGED <<fits, sockFile, starts, raced>>

\* set_permissions; if it fails, the listener and the file are dropped.
Secure(s) ==
    /\ svcPc[s] = "securing"
    /\ IF sockFile = NoFile THEN Gone(s) ELSE Go(s, "running")
    /\ UNCHANGED <<fits, sockFile, starts, raced>>

\* A graceful stop: Running is dropped.  The listener's task is aborted, which
\* closes it now or later, and SocketFile looks whether the file is its own.
Shutdown(s) ==
    /\ svcPc[s] = "running"
    /\ \/ sockFile.ino # ownIno[s] /\ Gone(s)
       \/ /\ sockFile.ino = ownIno[s]
          /\ Step(s, "unlinking")
          /\ \/ UNCHANGED <<listener, accepting>>
             \/ /\ listener' = [listener EXCEPT ![s] = 0]
                /\ accepting' = [accepting EXCEPT ![s] = FALSE]
          /\ UNCHANGED <<seenIno, ownIno>>
    /\ UNCHANGED <<fits, sockFile, starts, raced>>

Unlink(s) ==
    /\ svcPc[s] = "unlinking"
    /\ sockFile' = NoFile
    /\ Gone(s)
    /\ UNCHANGED <<fits, starts, raced>>

\* The process is killed, at any point.
Kill(s) ==
    /\ svcPc[s] # "down"
    /\ Gone(s)
    /\ UNCHANGED <<fits, sockFile, starts, raced>>

CtlNext ==
    \E s \in Services :
        \/ Start(s) \/ Probe(s) \/ Check(s) \/ RemoveStale(s) \/ BindSocket(s)
        \/ Listen(s) \/ Own(s) \/ Secure(s) \/ Shutdown(s) \/ Unlink(s) \/ Kill(s)

CtlSpec == CtlInit /\ [][CtlNext]_ctlVars

-----------------------------------------------------------------------------
(***************************************************************************)
(* A running service is the only one with its configuration and is the one *)
(* the path leads to, however starts, stops and kills of others are        *)
(* interleaved with it; the exceptions are named: a socket that appears    *)
(* between another process's last look at the path and its removal, or     *)
(* that is probed between bind() and listen() (control.rs, bind and the    *)
(* drop of SocketFile).                                                    *)
(***************************************************************************)
SoleService ==
    ~raced =>
        \A s \in Services : svcPc[s] = "running" =>
            /\ sockFile = [ino |-> listener[s], kind |-> "socket"]
            /\ ownIno[s] = listener[s]
            /\ \A t \in Services \ {s} : svcPc[t] # "running"
=============================================================================
