---------------------------- MODULE TunnelSetup ----------------------------
(***************************************************************************)
(* Opening SSH tunnels (tunnel.rs: SshTunnel::start and what it calls),    *)
(* several at a time: either a libssh2 session, whose host key is checked  *)
(* against ~/.ssh/known_hosts, or the system's ssh client as a child.      *)
(* libssh2 reads known_hosts as a whole and writes it as a whole.          *)
(***************************************************************************)
EXTENDS FiniteSets

CONSTANTS
  Tunnels,    \* calls of SshTunnel::start
  SystemSsh,  \* those with ssh_tunnel.ssh_config
  SshHosts, SshHostOf, \* the host of each
  HostKeys, NoKey

ASSUME SetupAssumption ==
  SystemSsh \subseteq Tunnels /\ SshHostOf \in [Tunnels -> SshHosts] /\ NoKey \notin HostKeys

VARIABLES
  setup,      \* where each tunnel is
  hostKey,    \* the key a host has; it may be replaced
  knownHosts, \* the file
  readHosts,  \* what a session has read of it
  sshChild,   \* ssh clients running
  accepted,   \* history: the key a session accepted
  trusted     \* history: the keys known before any session ran

tsVars == <<setup, hostKey, knownHosts, readHosts, sshChild, accepted, trusted>>

KnownFiles == [SshHosts -> HostKeys \cup {NoKey}]
TsTypeOK ==
  /\ setup \in [Tunnels -> {"new", "read", "add", "login", "polling", "up", "failed", "dropped"}]
  /\ hostKey \in [SshHosts -> HostKeys]
  /\ knownHosts \in KnownFiles /\ trusted \in KnownFiles
  /\ readHosts \in [Tunnels -> KnownFiles]
  /\ sshChild \subseteq SystemSsh
  /\ accepted \in [Tunnels -> HostKeys \cup {NoKey}]

NothingKnown == [h \in SshHosts |-> NoKey]
TsInit ==
  /\ setup = [t \in Tunnels |-> "new"]
  /\ hostKey \in [SshHosts -> HostKeys]
  /\ knownHosts \in KnownFiles
  /\ trusted = knownHosts
  /\ readHosts = [t \in Tunnels |-> NothingKnown]
  /\ sshChild = {}
  /\ accepted = [t \in Tunnels |-> NoKey]

Move(t, s) == setup' = [setup EXCEPT ![t] = s]

----------------------------------------------------------------------------
(* establish_session *)

(* Connect, handshake, read known_hosts; each may fail.                    *)
ReadKnownHosts(t) ==
  /\ setup[t] = "new" /\ t \notin SystemSsh
  /\ \/ Move(t, "failed") /\ UNCHANGED readHosts
     \/ Move(t, "read") /\ readHosts' = [readHosts EXCEPT ![t] = knownHosts]
  /\ UNCHANGED <<hostKey, knownHosts, sshChild, accepted, trusted>>

AcceptAny(t, key) == Move(t, "add")  \* fault: a mismatch is treated like an unknown host
DecideOnKey(t, key) ==
  CASE readHosts[t][SshHostOf[t]] = key -> Move(t, "login")
    [] readHosts[t][SshHostOf[t]] = NoKey -> Move(t, "add")
    [] OTHER -> Move(t, "failed")
(* check_port *)
VerifyHostKey(t) ==
  /\ setup[t] = "read"
  /\ LET key == hostKey[SshHostOf[t]] IN
     /\ DecideOnKey(t, key)
     /\ accepted' = IF setup'[t] = "failed" THEN accepted ELSE [accepted EXCEPT ![t] = key]
  /\ UNCHANGED <<hostKey, knownHosts, readHosts, sshChild, trusted>>

WriteOwnEntry(t) == [NothingKnown EXCEPT ![SshHostOf[t]] = accepted[t]]  \* fault: the file was not read
WithEntry(t) == [readHosts[t] EXCEPT ![SshHostOf[t]] = accepted[t]]
(* add and write_file: what was read, with the new entry.                  *)
AddHostKey(t) ==
  /\ setup[t] = "add"
  /\ \/ Move(t, "failed") /\ UNCHANGED knownHosts
     \/ Move(t, "login") /\ knownHosts' = WithEntry(t)
  /\ UNCHANGED <<hostKey, readHosts, sshChild, accepted, trusted>>

(* The private key, the password or the agent's keys; then the listener.   *)
Authenticate(t) ==
  /\ setup[t] = "login"
  /\ Move(t, "up") \/ Move(t, "failed")
  /\ UNCHANGED <<hostKey, knownHosts, readHosts, sshChild, accepted, trusted>>

----------------------------------------------------------------------------
(* start_system_ssh *)

SpawnSsh(t) ==
  /\ setup[t] = "new" /\ t \in SystemSsh
  /\ \/ Move(t, "failed") /\ UNCHANGED sshChild
     \/ Move(t, "polling") /\ sshChild' = sshChild \cup {t}
  /\ UNCHANGED <<hostKey, knownHosts, readHosts, accepted, trusted>>

LeaveChild(t) == sshChild  \* fault: ssh goes on after the timeout
KillChild(t) == sshChild \ {t}
(* It exited, the poll failed or the time is over; or its port answers.    *)
PollSsh(t) ==
  /\ setup[t] = "polling"
  /\ \/ Move(t, "failed") /\ sshChild' = KillChild(t)
     \/ t \in sshChild /\ Move(t, "up") /\ UNCHANGED sshChild
  /\ UNCHANGED <<hostKey, knownHosts, readHosts, accepted, trusted>>

SshExits(t) ==
  /\ t \in sshChild
  /\ sshChild' = sshChild \ {t}
  /\ UNCHANGED <<setup, hostKey, knownHosts, readHosts, accepted, trusted>>

(* Drop of SshTunnel. *)
CloseTunnel(t) ==
  /\ setup[t] = "up"
  /\ Move(t, "dropped")
  /\ sshChild' = sshChild \ {t}
  /\ UNCHANGED <<hostKey, knownHosts, readHosts, accepted, trusted>>

ReplaceHostKey(h) ==
  /\ \E k \in HostKeys \ {hostKey[h]} : hostKey' = [hostKey EXCEPT ![h] = k]
  /\ UNCHANGED <<setup, knownHosts, readHosts, sshChild, accepted, trusted>>

----------------------------------------------------------------------------
TsNext ==
  \/ \E t \in Tunnels :
       \/ ReadKnownHosts(t) \/ VerifyHostKey(t) \/ AddHostKey(t) \/ Authenticate(t)
       \/ SpawnSsh(t) \/ PollSsh(t) \/ SshExits(t) \/ CloseTunnel(t)
  \/ \E h \in SshHosts : ReplaceHostKey(h)
TsSpec == TsInit /\ [][TsNext]_tsVars

----------------------------------------------------------------------------
(* Properties *)

(* A host in known_hosts is only accepted with its key there, whatever     *)
(* other sessions add to the file meanwhile.                               *)
ChangedKeyIsRefused ==
  \A t \in Tunnels : LET h == SshHostOf[t] IN
    accepted[t] # NoKey => trusted[h] \in {NoKey, accepted[t]}

(* The file never loses or changes an entry it had to begin with.          *)
TrustedStays == \A h \in SshHosts : trusted[h] # NoKey => knownHosts[h] = trusted[h]

(* "An unknown host is appended to known_hosts": it is there as long as    *)
(* the application runs, so that a later change of its key is noticed.     *)
AppendedStays ==
  [][\A h \in SshHosts : knownHosts[h] # NoKey => knownHosts'[h] # NoKey]_tsVars

(* No ssh client outlives its tunnel, or an attempt that failed.           *)
NoOrphanSsh == \A t \in sshChild : setup[t] \in {"polling", "up"}

(* A tunnel is only set up to a host that was verified, what was trusted   *)
(* stays so, and a setup that fails leaves no ssh client running.          *)
HostsAreVerified == ChangedKeyIsRefused /\ TrustedStays /\ NoOrphanSsh
=============================================================================
