---------------------------- MODULE DumpCommand ----------------------------
(***************************************************************************)
(* The command line of a dump (dump.rs: build_command_line): which options *)
(* a request turns into, next to what mysqldump and pg_dump make of them.  *)
(* Options are names; the values they carry are left out, but for the      *)
(* addresses.                                                              *)
(***************************************************************************)
EXTENDS FiniteSets, Sequences

VARIABLES
  dumpRequest,  \* the request with what it needs of the connection
  commandLine   \* the options, or {"none"} before, {"refused"} when it is an error

dcVars == <<dumpRequest, commandLine>>

Clients == {"mysql", "mariadb", "mariadb11", "pg_dump"}  \* mariadb11: 11.4 and newer
SslModes == {"disable", "prefer", "require", "verify-ca", "verify-full"}
DumpRequests ==
  [client : Clients, sslMode : SslModes, viaTunnel : BOOLEAN, table : BOOLEAN,
   content : {"all", "schema", "data"}, custom : BOOLEAN, routines : BOOLEAN, addDrop : BOOLEAN]

On(condition, options) == IF condition THEN options ELSE {}

VerifyByDefault(mode) ==  \* fault: prefer and require leave MariaDB's default
  CASE mode = "disable" -> {"skip-ssl"}
    [] mode \in {"prefer", "require"} -> {"ssl"}
    [] OTHER -> {"ssl", "ssl-verify-server-cert"}
MariadbTls(mode) ==
  CASE mode = "disable" -> {"skip-ssl"}
    [] mode \in {"prefer", "require"} -> {"ssl", "skip-ssl-verify-server-cert"}
    [] OTHER -> {"ssl", "ssl-verify-server-cert"}
(* mysql_tls_args *)
TlsArgs(r) ==
  IF r.client = "mysql" THEN On(r.sslMode # "prefer", {"ssl-mode=" \o r.sslMode}) ELSE MariadbTls(r.sslMode)

KeepTriggers(r) == {"no-create-info"}  \* fault: triggers are definitions, too
DataOnly(r) == {"no-create-info", "skip-triggers"}
MysqldumpArgs(r) ==
  {"defaults-file", IF r.viaTunnel THEN "host=tunnel" ELSE "host=server"}
    \cup TlsArgs(r)
    \cup On(r.routines /\ ~r.table /\ r.content # "data", {"routines"})
    \cup On(~r.addDrop, {"skip-add-drop-table"})
    \cup On(r.content = "schema", {"no-data"})
    \cup On(r.content = "data", DataOnly(r))

CleanAlways(r) == r.addDrop  \* fault: --clean together with --data-only
CleanApplies(r) == r.addDrop /\ r.content # "data"
PgDumpArgs(r) ==
  {"host=server", "sslmode=" \o r.sslMode}
    \cup On(r.viaTunnel, {"hostaddr=tunnel"})
    \cup (IF r.custom THEN {"format=custom"} ELSE On(CleanApplies(r), {"clean"}))
    \cup On(r.content = "schema", {"schema-only"})
    \cup On(r.content = "data", {"data-only"})

BuildCommandLine ==
  /\ commandLine = {"none"}
  /\ \E r \in DumpRequests :
       /\ dumpRequest' = r
       /\ commandLine' = CASE r.client = "pg_dump" -> PgDumpArgs(r)
                           [] r.custom -> {"refused"}
                           [] OTHER -> MysqldumpArgs(r)

DcInit ==
  /\ dumpRequest = [client |-> "mysql", sslMode |-> "prefer", viaTunnel |-> FALSE, table |-> FALSE,
                    content |-> "all", custom |-> FALSE, routines |-> FALSE, addDrop |-> FALSE]
  /\ commandLine = {"none"}
DcNext == BuildCommandLine
DcSpec == DcInit /\ [][DcNext]_dcVars

DcTypeOK == dumpRequest \in DumpRequests /\ IsFiniteSet(commandLine)

----------------------------------------------------------------------------
(* What the tools make of the options *)

Given(option) == option \in commandLine
Built == commandLine \notin {{"none"}, {"refused"}}

Connection ==
  CASE dumpRequest.client = "pg_dump" -> IF Given("hostaddr=tunnel") THEN "tunnel" ELSE "server"
    [] OTHER -> IF Given("host=tunnel") THEN "tunnel" ELSE "server"
(* How a client protects the connection: not, if the server can, always,   *)
(* or with a certificate that is checked.                                  *)
Protection ==
  CASE dumpRequest.client = "mysql" ->
         CASE Given("ssl-mode=disable") -> "none" [] Given("ssl-mode=require") -> "encrypted"
           [] Given("ssl-mode=verify-ca") \/ Given("ssl-mode=verify-full") -> "verified"
           [] OTHER -> "opportunistic"
    [] dumpRequest.client = "pg_dump" ->
         CASE Given("sslmode=disable") -> "none" [] Given("sslmode=require") -> "encrypted"
           [] Given("sslmode=prefer") -> "opportunistic" [] OTHER -> "verified"
    [] OTHER ->
         CASE Given("skip-ssl") -> "none"
           [] Given("ssl-verify-server-cert") -> "verified"
           [] Given("skip-ssl-verify-server-cert") \/ dumpRequest.client = "mariadb" ->
                IF Given("ssl") THEN "encrypted" ELSE "none"
           [] OTHER -> "verified"

(* What the file will hold.                                                *)
Contents ==
  IF dumpRequest.client = "pg_dump"
    THEN On(~Given("data-only"), {"tables", "triggers"}) \cup On(~Given("schema-only"), {"rows"})
    ELSE On(~Given("no-create-info"), {"tables"}) \cup On(~Given("skip-triggers"), {"triggers"})
           \cup On(Given("routines"), {"routines"}) \cup On(~Given("no-data"), {"rows"})

----------------------------------------------------------------------------
(* Properties *)

(* The dump is protected as the connection's ssl_mode says, with each      *)
(* client's own defaults: never less, and a certificate is only checked    *)
(* when that was asked for.  (MariaDB's cannot tell prefer from require.)  *)
ProtectedAsConfigured ==
  Built => Protection \in
    CASE dumpRequest.sslMode = "disable" -> {"none"}
      [] dumpRequest.sslMode = "prefer" -> {"opportunistic", "encrypted"}
      [] dumpRequest.sslMode = "require" -> {"encrypted"}
      [] OTHER -> {"verified"}

(* A dump holds what was asked for: rows only with the data, definitions   *)
(* (triggers and routines, too) only with the structure, and the tool      *)
(* does not refuse the combination.                                        *)
HoldsWhatWasAsked ==
  Built =>
    /\ dumpRequest.content = "data" => Contents = {"rows"}
    /\ dumpRequest.content = "schema" => "rows" \notin Contents
    /\ dumpRequest.content # "data" => {"tables", "triggers"} \subseteq Contents
    /\ ~(Given("clean") /\ Given("data-only"))

(* With an SSH tunnel the tool connects to it and never past it.           *)
GoesThroughTunnel == Built => (Connection = "tunnel" <=> dumpRequest.viaTunnel)
=============================================================================
