------------------------------- MODULE Editor -------------------------------
(***************************************************************************)
(* openvscode-server in a VM: its install, configure and stop endpoints,   *)
(* each a script in the VM (GuestExec).                                    *)
(***************************************************************************)
EXTENDS GuestExec

CONSTANT Configs   \* a port with its token

VARIABLES
    bin,       \* what of the server is unpacked in /opt/openvscode-server
    conf,      \* the token file and the unit on the disk
    server     \* the server that systemd runs: the port and token it uses

editor == <<bin, conf, server>>

-----------------------------------------------------------------------------
\* [ -x "$BIN" ] is true of a part: BIN is a file of the tarball like the
\* others, and executable from its first byte on.
Bins == {"none", "dir", "part", "whole"}
HasBin == bin \in {"part", "whole"}

Scripts == [kind : {"install", "configure", "stop"}, arg : Configs \cup {None},
            at : {"test", "version", "mkdir", "unpack", "replace", "unpacking", "check", "token",
                  "tokened", "unit", "united", "restart", "stop", "ok", "bad"},
            saw : {<<>>} \cup {<<b>> : b \in Bins}, alone : BOOLEAN]

InitEditor ==
    /\ bin = "none"
    /\ conf = [token |-> None, unit |-> None]
    /\ server = None

\* What systemd has running once it has started the server: with both files
\* there, one that uses them, unless it fails, on a part of its code or a port
\* that is in use.
Started ==
    {None} \cup (IF HasBin /\ conf.token \in Configs /\ conf.unit \in Configs THEN {conf} ELSE {})

\* tar writes over what is there, so that a file may be cut when it is broken off.
Tarring(s) == \E label \in {"unpack", "replace", "unpacking"} : At(s, "install", label)
BrokenOff == IF HasBin THEN {"part"} ELSE {}

-----------------------------------------------------------------------------
(* The handlers *)

Install(t, s) ==
    /\ Launch(t, s, "install", None, "test")
    /\ UNCHANGED editor

Configure(t, s) ==
    /\ \E c \in Configs : Launch(t, s, "configure", c, "test")
    /\ UNCHANGED editor

StopEditor(t, s) ==
    /\ Launch(t, s, "stop", None, "stop")
    /\ UNCHANGED editor

-----------------------------------------------------------------------------
(* EDITOR_INSTALL_SCRIPT *)

\* set -e; a restart that fails may have stopped the server.
EditorFails(s) ==
    /\ script[s] # None /\ script[s].kind \in {"install", "configure"}
    /\ Breaks(s)
    /\ bin' \in {bin} \cup (IF Tarring(s) THEN BrokenOff ELSE {})
    /\ server' \in {server} \cup (IF At(s, "configure", "restart") THEN {None} ELSE {})
    /\ UNCHANGED conf

\* [ -x "$BIN" ]
InstallTest(s) ==
    /\ At(s, "install", "test")
    /\ Reads(s, bin, IF HasBin THEN "version" ELSE "mkdir")
    /\ UNCHANGED editor

\* Whatever BIN --version comes to in its pipe, the script ends with exit 0.
PrintVersion(s) ==
    /\ At(s, "install", "version")
    /\ EndAt(s, "ok")
    /\ UNCHANGED editor

\* curl, mkdir -p
MakeDir(s) ==
    /\ At(s, "install", "mkdir")
    /\ bin' = IF bin = "none" THEN "dir" ELSE bin
    /\ Go(s, "unpack")
    /\ UNCHANGED <<conf, server>>

\* tar takes away a BIN that is there, and then writes its own.
RemoveBin(s) ==
    /\ At(s, "install", "unpack")
    /\ bin' = "dir"
    /\ Go(s, "replace")
    /\ UNCHANGED <<conf, server>>

UnpackBin(s) ==
    /\ At(s, "install", "replace")
    /\ bin' = "part"
    /\ Go(s, "unpacking")
    /\ UNCHANGED <<conf, server>>

\* Mutant of Unpack: tar fails, and the script goes on (no set -e).
UnpackAnyhow(s) ==
    /\ At(s, "install", "unpacking")
    /\ bin' \in {bin, "part", "whole"}
    /\ Go(s, "check")
    /\ UNCHANGED <<conf, server>>

\* tar is done. Another one may have got in its way, and may still be at it.
Unpack(s) ==
    /\ At(s, "install", "unpacking")
    /\ bin' \in {"whole"} \cup (IF script[s].alone THEN {} ELSE {bin, "part"})
    /\ Go(s, "check")
    /\ UNCHANGED <<conf, server>>

\* The same test again.
CheckBin(s) ==
    /\ At(s, "install", "check")
    /\ HasBin
    /\ EndAt(s, "ok")
    /\ UNCHANGED editor

-----------------------------------------------------------------------------
(* The script of configure *)

ConfigureTest(s) ==
    /\ At(s, "configure", "test")
    /\ HasBin
    /\ Go(s, "token")
    /\ UNCHANGED editor

\* Each file is emptied when it is opened, then written.
OpenToken(s) ==
    /\ At(s, "configure", "token")
    /\ conf' = [conf EXCEPT !.token = "torn"]
    /\ Go(s, "tokened")
    /\ UNCHANGED <<bin, server>>

WriteToken(s) ==
    /\ At(s, "configure", "tokened")
    /\ conf' = [conf EXCEPT !.token = script[s].arg]
    /\ Go(s, "unit")
    /\ UNCHANGED <<bin, server>>

OpenUnit(s) ==
    /\ At(s, "configure", "unit")
    /\ conf' = [conf EXCEPT !.unit = "torn"]
    /\ Go(s, "united")
    /\ UNCHANGED <<bin, server>>

WriteUnit(s) ==
    /\ At(s, "configure", "united")
    /\ conf' = [conf EXCEPT !.unit = script[s].arg]
    /\ Go(s, "restart")
    /\ UNCHANGED <<bin, server>>

\* Mutant of Restart: systemctl start, or enable --now.
StartOnly(s) ==
    /\ At(s, "configure", "restart")
    /\ server' \in IF server # None THEN {server} ELSE Started
    /\ EndAt(s, "ok")
    /\ UNCHANGED <<bin, conf>>

\* daemon-reload, enable, restart; the answer asks whether it is active.
Restart(s) ==
    /\ At(s, "configure", "restart")
    /\ server' \in Started
    /\ EndAt(s, "ok")
    /\ UNCHANGED <<bin, conf>>

\* systemctl disable --now || true
DisableNow(s) ==
    /\ At(s, "stop", "stop")
    /\ server' \in {server, None}
    /\ EndAt(s, "ok")
    /\ UNCHANGED <<bin, conf>>

EditorStep(s) ==
    \/ InstallTest(s) \/ PrintVersion(s) \/ MakeDir(s) \/ RemoveBin(s) \/ UnpackBin(s)
    \/ Unpack(s) \/ CheckBin(s)
    \/ ConfigureTest(s) \/ OpenToken(s) \/ WriteToken(s) \/ OpenUnit(s) \/ WriteUnit(s)
    \/ Restart(s) \/ DisableNow(s) \/ EditorFails(s)

-----------------------------------------------------------------------------
(* systemd *)

\* The server ends by itself; Restart=always.
Respawn ==
    /\ server # None
    /\ server' \in {None} \cup (IF HasBin /\ conf.token \in Configs
                                THEN {[server EXCEPT !.token = conf.token]} ELSE {})
    /\ UNCHANGED <<exec, bin, conf>>

\* The VM is stopped; when it comes back the unit is enabled or not.
EditorDown ==
    /\ server' \in Started
    /\ bin' \in {bin} \cup (IF \E s \in Slots : Tarring(s) THEN BrokenOff ELSE {})
    /\ UNCHANGED conf

-----------------------------------------------------------------------------
(* Properties *)

\* Every variable of the editor has its type.
EditorTypeOK ==
    /\ bin \in Bins
    /\ conf \in [token : Configs \cup {None, "torn"}, unit : Configs \cup {None, "torn"}]
    /\ server \in [token : Configs, unit : Configs] \cup {None}

\* An install that answers installed has left the whole of the server, or found
\* a BIN from before it and left that as it was, unless another request about
\* the editor was made meanwhile. (What it finds may be a part, of an install
\* that was broken off; the answer does not tell.)
InstalledWhole ==
    [][\A t \in Threads : Reply(t, TRUE) =>
         LET s == script[waits[t]] IN
         s.kind = "install" /\ s.alone =>
             bin = "whole" \/ (bin = "part" /\ s.saw = <<"part">>)]_<<exec, editor>>

\* After a configure that answers ok no server runs with another port or token,
\* not one that ran before either, unless another request was made meanwhile;
\* there may be none at all.
ConfiguredRuns ==
    [][\A t \in Threads : Reply(t, TRUE) =>
         LET s == script[waits[t]] IN
         s.kind = "configure" /\ s.alone =>
             server \in {None, [token |-> s.arg, unit |-> s.arg]}]_<<exec, editor>>
=============================================================================
