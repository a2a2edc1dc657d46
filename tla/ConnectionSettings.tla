------------------------- MODULE ConnectionSettings -------------------------
(***************************************************************************)
(* What the settings of a connection come to: the connection each engine   *)
(* makes of them (db.rs: connect, engines), next to what the connection  *)
(* list and `--list-servers` say about it, and the folder its query files  *)
(* are kept in.                                                            *)
(***************************************************************************)
EXTENDS Naturals, Sequences, SequencesExt, FiniteSets

VARIABLES settings, otherSettings, awsEnv
csVars == <<settings, otherSettings, awsEnv>>

NotSet == "unset"
SqlEngines == {"mysql", "postgres", "mssql"}
FileEngines == {"sqlite", "duckdb"}
ServerEngines == SqlEngines \cup FileEngines \cup {"redis", "elasticsearch", "dynamodb", "unknown"}
Modes == {"disable", "prefer", "require", "verify-ca", "verify-full"}
Verifying == {"verify-ca", "verify-full"}
Schemes == {NotSet, "https", "http", "ftp", "garbage"}
(* A name is the words between its underscores.                            *)
Names == {<<"h">>, <<"h", "i">>}
UserNames == {NotSet, "key1", "key2"}
Settings ==
  [engine : ServerEngines, sslMode : Modes \cup {NotSet, "typo"}, rootCert : {NotSet, "blank", "file", "missing"},
   tls : BOOLEAN, host : Names \cup {<<>>}, user : UserNames, password : {NotSet, "p"},
   profile : {NotSet, "a", "b"}, command : {NotSet, "blank", "cmd"}, folder : {NotSet, "f"}]
AwsEnvironments == [ignored : BOOLEAN, service : Schemes, global : Schemes]
Error == "error"

----------------------------------------------------------------------------
(* config.rs: what the settings resolve to                                 *)

SqlSslMode(s) ==
  CASE s.sslMode = "typo" -> Error
    [] s.sslMode # NotSet -> s.sslMode
    [] s.tls -> "verify-full"
    [] OTHER -> "prefer"
IgnoredWhenUnverified(s) ==  \* fault: the driver's silence is passed on
  CASE s.rootCert = NotSet \/ SqlSslMode(s) \notin Verifying -> NotSet
    [] s.rootCert \in {"blank", "missing"} -> Error
    [] OTHER -> s.rootCert
SqlSslRootCert(s) ==
  CASE s.rootCert = NotSet -> NotSet
    [] s.rootCert = "blank" \/ SqlSslMode(s) \notin Verifying -> Error
    [] OTHER -> s.rootCert
SslRootCertPath(s) == IF SqlSslRootCert(s) = "missing" THEN Error ELSE SqlSslRootCert(s)
PasswordCommand(s) ==
  CASE s.command = NotSet -> NotSet
    [] s.command = "blank" \/ s.password # NotSet \/ s.engine \in FileEngines -> Error
    [] OTHER -> s.command
(* establish puts the output of the command in the place of the password.  *)
WithPassword(s) == IF PasswordCommand(s) = NotSet THEN s ELSE [s EXCEPT !.password = "p"]

----------------------------------------------------------------------------
(* The connection each engine makes                                        *)

Fails == [wire |-> "fails", verified |-> "no", as |-> "nobody"]
Wire(mode) ==
  [wire |-> CASE mode = "disable" -> "plain" [] mode = "prefer" -> "either" [] OTHER -> "tls",
   verified |-> IF mode \in Verifying THEN mode ELSE "no", as |-> "user"]
ConnectSql(s) == IF Error \in {SqlSslMode(s), SslRootCertPath(s)} THEN Fails ELSE Wire(SqlSslMode(s))
BuildMssqlConfig(s) ==
  CASE s.user = NotSet \/ SqlSslMode(s) = Error -> Fails
    [] SqlSslMode(s) \in Verifying /\ SslRootCertPath(s) = Error -> Fails
    [] OTHER -> Wire(SqlSslMode(s))
Tls(s) == IF s.tls THEN Wire("verify-full") ELSE Wire("disable")
ConnectRedis(s) == Tls(s)
ConnectElastic(s) == Tls(s)
HasEndpointOverride(s) == s.host # <<>>
AwsEndpoint(env) ==
  CASE env.ignored -> NotSet
    [] env.service # NotSet -> env.service
    [] OTHER -> env.global
(* What the SDK makes of an endpoint: one it cannot read is discarded.     *)
SdkEndpoint(scheme) ==
  CASE scheme = "http" -> Wire("disable") [] scheme = "ftp" -> Fails [] OTHER -> Wire("verify-full")
Credential(s) ==
  CASE (s.user = NotSet) # (s.password = NotSet) -> Error
    [] s.user # NotSet -> s.user
    [] s.profile # NotSet -> s.profile
    [] OTHER -> "default"
BuildDynamoClient(s, env) ==
  IF Credential(s) = Error THEN Fails
  ELSE [(IF HasEndpointOverride(s) THEN Tls(s) ELSE SdkEndpoint(AwsEndpoint(env))) EXCEPT !.as = Credential(s)]
Connect(given, env) ==
  LET s == WithPassword(given) IN
  CASE given.engine = "unknown" \/ PasswordCommand(given) = Error -> Fails
    [] s.engine \in {"mysql", "postgres"} -> ConnectSql(s)
    [] s.engine = "mssql" -> BuildMssqlConfig(s)
    [] s.engine = "redis" -> ConnectRedis(s)
    [] s.engine = "elasticsearch" -> ConnectElastic(s)
    [] s.engine = "dynamodb" -> BuildDynamoClient(s, env)
    [] OTHER -> [Fails EXCEPT !.wire = "file"]

----------------------------------------------------------------------------
(* What is said of it                                                      *)

(* ConnectionInfo: the mode in the connection's tooltip.                   *)
InfoMode(s) ==
  CASE s.engine \in SqlEngines -> IF SqlSslMode(s) = Error THEN NotSet ELSE SqlSslMode(s)
    [] s.engine = "redis" -> IF s.tls THEN "verify-full" ELSE "disable"
    [] OTHER -> NotSet
SchemeSummary(scheme) == CASE scheme = "http" -> "off" [] scheme = "ftp" -> "invalid" [] OTHER -> "on"
FlagAsItIs(s, env) == IF s.tls THEN "on" ELSE "off"  \* fault: without a host the flag means nothing
FlagOrEndpoint(s, env) ==
  IF s.engine = "dynamodb" /\ ~HasEndpointOverride(s) THEN SchemeSummary(AwsEndpoint(env))
  ELSE IF s.tls THEN "on" ELSE "off"
SslSummary(s, env) ==
  CASE s.engine = "unknown" -> "invalid"
    [] s.engine \in SqlEngines /\ Error \in {SqlSslMode(s), SqlSslRootCert(s)} -> "invalid"
    [] InfoMode(s) # NotSet -> InfoMode(s)
    [] OTHER -> FlagOrEndpoint(s, env)
UserCell(s) == IF s.engine = "dynamodb" /\ s.user # NotSet THEN "hidden" ELSE s.user

(* The folder of the query files: folder_name, or host, engine, schema and *)
(* user joined by underscores; the schema is the same for all here.        *)
Hash(user) == "key-" \o user
ProfileFirst(s) ==  \* fault: the order of the credentials, reversed
  CASE s.profile # NotSet -> s.profile [] s.user # NotSet -> Hash(s.user) [] OTHER -> ""
Discriminator(s) ==
  CASE s.user # NotSet -> Hash(s.user) [] s.profile # NotSet -> s.profile [] OTHER -> ""
UserPart(s) ==
  CASE s.engine = "dynamodb" -> Discriminator(s) [] s.user # NotSet -> s.user [] OTHER -> ""
SqlFilesFolderName(s) ==
  IF s.folder # NotSet THEN <<s.folder>>
  ELSE (IF s.host = <<>> THEN <<"">> ELSE s.host) \o <<s.engine, "schema", UserPart(s)>>

----------------------------------------------------------------------------
Plain == [engine |-> "mysql", sslMode |-> NotSet, rootCert |-> NotSet, tls |-> FALSE, host |-> <<"h">>, user |-> "key1",
          password |-> "p", profile |-> NotSet, command |-> NotSet, folder |-> NotSet]
NoEnv == [ignored |-> FALSE, service |-> NotSet, global |-> NotSet]
CsInit == settings = Plain /\ otherSettings = Plain /\ awsEnv = NoEnv
Fresh == settings = Plain /\ otherSettings = Plain /\ awsEnv = NoEnv
WithDefaults(s) == [f \in DOMAIN Plain |-> IF f \in DOMAIN s THEN s[f] ELSE Plain[f]]
SetTls ==
  /\ \E s \in [engine : ServerEngines, sslMode : Modes \cup {NotSet, "typo"},
               rootCert : {NotSet, "blank", "file", "missing"}, tls : BOOLEAN, host : {<<>>, <<"h">>}, user : {NotSet, "key1"}] :
       settings' = WithDefaults(s)
  /\ UNCHANGED <<otherSettings, awsEnv>>
SetEndpoint ==
  /\ \E h \in {<<>>, <<"h">>}, tls \in BOOLEAN :
       settings' = [Plain EXCEPT !.engine = "dynamodb", !.host = h, !.tls = tls]
  /\ awsEnv' \in AwsEnvironments
  /\ UNCHANGED otherSettings
Accounts ==
  [engine : {"dynamodb", "postgres", "redis"}, host : Names \cup {<<>>}, user : UserNames, password : {NotSet, "p"},
   profile : {NotSet, "a", "b"}, command : {NotSet, "blank", "cmd"}, folder : {NotSet, "f"}]
SetAccounts ==
  \E engine \in {"dynamodb", "postgres"} :
    /\ \E s \in {a \in Accounts : a.engine = engine /\ a.folder = NotSet /\ a.host # <<"h", "i">>} : settings' = WithDefaults(s)
    /\ \E s \in {a \in Accounts : a.engine = engine /\ a.command = NotSet} : otherSettings' = WithDefaults(s)
    /\ UNCHANGED awsEnv
CsNext == Fresh /\ (SetTls \/ SetEndpoint \/ SetAccounts)
CsSpec == CsInit /\ [][CsNext]_csVars

CsTypeOK == settings \in Settings /\ otherSettings \in Settings /\ awsEnv \in AwsEnvironments

----------------------------------------------------------------------------
(* Properties *)

Connected == Connect(settings, awsEnv)
SslCell == SslSummary(settings, awsEnv)

(* The SSL column says what the connection does: nothing that may be plain *)
(* or unverified reads as more, and what reads as less is less.            *)
ShownIsWhatConnects ==
  Connected.wire \notin {"fails", "file"} /\ SslCell # "invalid" =>
    CASE SslCell = "on" -> Connected.wire = "tls"
      [] SslCell = "off" -> Connected.wire = "plain"
      [] OTHER -> Connected.wire = Wire(SslCell).wire /\ Connected.verified = Wire(SslCell).verified

(* "invalid" stands where the TLS settings keep the connection from being  *)
(* made, but for a certificate that is not there (yet): with the settings  *)
(* of TLS put in order the connection is made.                             *)
InOrder == [settings EXCEPT !.sslMode = NotSet, !.rootCert = NotSet]
InvalidIsMarked ==
  /\ settings.engine # "unknown" /\ Connected.wire = "fails"
  /\ Connect(InOrder, awsEnv).wire # "fails"
  => SslCell = "invalid" \/ settings.rootCert = "missing"

(* "this config will not connect": what reads as invalid does not.  SQL    *)
(* Server reads the certificate only where it verifies.                    *)
InvalidNeverConnects ==
  SslCell = "invalid" /\ settings.engine # "mssql" => Connected.wire = "fails"

(* A connection whose settings name a root certificate verifies the        *)
(* server, or is not made: "that combination is rejected rather than       *)
(* silently ignored".                                                      *)
RootCertIsNeverIgnored ==
  settings.engine \in SqlEngines /\ settings.rootCert # NotSet /\ Connected.wire # "fails" =>
    Connected.verified \in Verifying

RootCertMeansVerified == settings.engine # "mssql" => RootCertIsNeverIgnored

(* Connections to one region under different credentials keep their query  *)
(* files apart.                                                            *)
CredentialsHaveTheirFolders ==
  LET a == Connect(settings, NoEnv) b == Connect(otherSettings, NoEnv) IN
  /\ settings.engine = "dynamodb" /\ otherSettings.engine = "dynamodb"
  /\ settings.folder = NotSet /\ otherSettings.folder = NotSet
  /\ a.wire # "fails" /\ b.wire # "fails" /\ a.as # b.as
  => SqlFilesFolderName(settings) # SqlFilesFolderName(otherSettings)

(* The access key of DynamoDB is in no folder name and in no list.         *)
AccessKeysAreNotShown ==
  settings.engine = "dynamodb" /\ settings.user # NotSet =>
    settings.user \notin ToSet(SqlFilesFolderName(settings)) \cup {UserCell(settings)}
=============================================================================
