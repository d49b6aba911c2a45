------------------------------ MODULE Service ------------------------------
(***************************************************************************)
(* bsc service install and uninstall: they write or remove a definition    *)
(* and run the commands of the platform's supervisor one by one, each of   *)
(* which may fail.  What a command does is the supervisor's: launchd,      *)
(* systemd --user or the Task Scheduler, external to the repository.  The  *)
(* address stands for the whole definition.  A dry run, and an install     *)
(* without a vault, change nothing.                                        *)
(***************************************************************************)
EXTENDS Sequences

CONSTANTS
  Os,       \* platforms: macos, linux, windows
  Bind,     \* addresses a daemon is installed for
  Nothing   \* no definition, no daemon

VARIABLES
  os,       \* Os::current
  file,     \* the definition at definition_path
  loaded,   \* the definition the supervisor works with
  enabled,  \* systemd: started at login
  running,  \* the address the daemon serves
  op,       \* the install or uninstall in progress
  todo,     \* its commands that are left
  report    \* what the last one that ended printed

supervisor == <<loaded, enabled, running>>
vars == <<os, file, supervisor, op, todo, report>>

NoOp == [kind |-> "none", bind |-> Nothing]
Failed == [kind |-> "failed", bind |-> Nothing]

Init ==
  /\ os \in Os
  /\ file = Nothing /\ loaded = Nothing /\ enabled = FALSE /\ running = Nothing
  /\ op = NoOp /\ todo = <<>> /\ report = NoOp

install_commands ==
  [macos   |-> <<"bootout", "bootstrap", "kickstart">>,
   linux   |-> <<"daemon-reload", "enable --now">>,
   windows |-> <<"create", "run">>]

uninstall_commands ==
  [macos   |-> <<"bootout">>,
   linux   |-> <<"disable --now", "daemon-reload">>,
   windows |-> <<"end", "delete">>]

HasFile == os # "windows"

\* What a command that succeeds does; starting what runs already does nothing.
Supervise(cmd) ==
  LET started == IF running = Nothing THEN loaded ELSE running IN
  CASE cmd = "bootout" -> loaded # Nothing /\ loaded' = Nothing /\ running' = Nothing /\ UNCHANGED enabled
    [] cmd = "bootstrap" -> loaded = Nothing /\ loaded' = file /\ running' = file /\ UNCHANGED enabled
    [] cmd = "kickstart" -> running' = loaded /\ UNCHANGED <<loaded, enabled>>
    [] cmd = "daemon-reload" -> loaded' = file /\ UNCHANGED <<enabled, running>>
    [] cmd = "enable --now" -> enabled' = TRUE /\ running' = started /\ UNCHANGED loaded
    [] cmd = "disable --now" -> enabled' = FALSE /\ running' = Nothing /\ UNCHANGED loaded
    [] cmd = "create" -> loaded' = op.bind /\ UNCHANGED <<enabled, running>>
    [] cmd = "run" -> running' = started /\ UNCHANGED <<loaded, enabled>>
    [] cmd = "end" -> running' = Nothing /\ UNCHANGED <<loaded, enabled>>
    [] cmd = "delete" -> loaded' = Nothing /\ UNCHANGED <<enabled, running>>

Stop(r) == op' = NoOp /\ todo' = <<>> /\ report' = r

\* install up to its first command: the definition is on disk, or an error is.
Install(b) ==
  /\ op = NoOp
  /\ \/ /\ file' = (IF HasFile THEN b ELSE file)
        /\ op' = [kind |-> "install", bind |-> b] /\ todo' = install_commands[os]
        /\ report' = NoOp
     \/ HasFile /\ Stop(Failed) /\ UNCHANGED file
  /\ UNCHANGED <<os, supervisor>>

Uninstall ==
  /\ op = NoOp
  /\ op' = [kind |-> "uninstall", bind |-> Nothing] /\ todo' = uninstall_commands[os]
  /\ report' = NoOp
  /\ UNCHANGED <<os, file, supervisor>>

\* install forgives the first command on macOS, uninstall every one.
tolerate_failure ==
  op.kind = "uninstall" \/ (os = "macos" /\ todo = install_commands.macos)

\* run: the next command succeeds, or fails and is forgiven or ends the install.
Run ==
  /\ todo # <<>>
  /\ \/ Supervise(Head(todo)) /\ todo' = Tail(todo) /\ UNCHANGED <<op, report>>
     \/ tolerate_failure /\ todo' = Tail(todo) /\ UNCHANGED <<supervisor, op, report>>
     \/ ~tolerate_failure /\ Stop(Failed) /\ UNCHANGED supervisor
  /\ UNCHANGED <<os, file>>

Installed ==
  /\ op.kind = "install" /\ todo = <<>>
  /\ Stop([kind |-> "installed", bind |-> op.bind])
  /\ UNCHANGED <<os, file, supervisor>>

Uninstalled ==
  /\ op.kind = "uninstall" /\ todo = <<>>
  /\ \/ file' = Nothing /\ Stop([kind |-> "uninstalled", bind |-> Nothing])
     \/ file # Nothing /\ Stop(Failed) /\ UNCHANGED file
  /\ UNCHANGED <<os, supervisor>>

\* KeepAlive, Restart=on-failure, and nothing on Windows.
DaemonEnds ==
  /\ running # Nothing
  /\ \/ os # "macos" /\ running' = Nothing
     \/ os # "windows" /\ running' = loaded
  /\ UNCHANGED <<os, file, loaded, enabled, op, todo, report>>

\* RunAtLoad, WantedBy=default.target, /SC ONLOGON; an install under way is gone.
Login ==
  /\ loaded' = (IF HasFile THEN file ELSE loaded)
  /\ running' = (IF os = "linux" /\ ~enabled THEN Nothing ELSE loaded')
  /\ op' = NoOp /\ todo' = <<>> /\ report' = (IF op = NoOp THEN report ELSE NoOp)
  /\ UNCHANGED <<os, file, enabled>>

Next ==
  \/ \E b \in Bind : Install(b)
  \/ Uninstall \/ Run \/ Installed \/ Uninstalled \/ DaemonEnds \/ Login

Spec == Init /\ [][Next]_vars

------------------------------------------------------------------------------
\* "installed; the daemon starts at login and serves http://{bind}/"
\* (service.rs:363-366): after an install that said so, the daemon that runs
\* serves the address it was installed for.
InstalledServes ==
  report.kind = "installed" /\ running # Nothing => running = report.bind
=============================================================================
