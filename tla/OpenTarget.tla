----------------------------- MODULE OpenTarget -----------------------------
(***************************************************************************)
(* From a path somebody asks to open (queryfolio://open/..., `queryfolio   *)
(* open ...`) to a connection and a file: router.rs resolves the path by   *)
(* its text alone, AppState::resolve_route_target (lib.rs) then checks     *)
(* where symbolic links lead.  A path is a sequence of components from the *)
(* root; the base directory of query files is <<"base">>.                  *)
(***************************************************************************)
EXTENDS Naturals, Sequences, SequencesExt, FiniteSetsExt

CONSTANTS
  Servers,      \* connections
  FolderNames, QueryNames, \* components that can be folders, and files
  MaxPath       \* bound: components of a path

ASSUME TargetAssumption == MaxPath \in Nat /\ FolderNames \cup QueryNames \subseteq STRING

Up == ".."
Here == "."
Base == <<"base">>
Outside == <<"etc">>
NoTarget == <<>>
Components == {Up, Here, Base[1], Outside[1]} \cup FolderNames \cup QueryNames
Paths == BoundedSeq(Components, MaxPath)

VARIABLES
  folderOf,  \* folder of each connection (sqlfiles_folder_name)
  links,     \* places that are symbolic links, and where they lead
  cwd,       \* where a relative path starts; the root for an absolute one
  askedPath, \* the path
  resolved   \* whether a path was asked for

otVars == <<folderOf, links, cwd, askedPath, resolved>>

Linkable == {Append(Base, f) : f \in FolderNames}
              \cup {Base \o <<f, q>> : f \in FolderNames, q \in QueryNames}
OtTypeOK ==
  /\ folderOf \in [Servers -> FolderNames]
  /\ \A p \in DOMAIN links : p \in Linkable /\ links[p] \in Seq(Components)
  /\ cwd \in Seq(Components) /\ askedPath \in Seq(Components)
  /\ resolved \in BOOLEAN

----------------------------------------------------------------------------
(* resolve_open_target *)

DropUp(path) == SelectSeq(path, LAMBDA c : c \notin {Up, Here})  \* fault: `..` is skipped
LexicalNormalize(path) ==
  FoldLeft(LAMBDA out, c : CASE c = Here -> out
                             [] c = Up -> IF out = <<>> THEN out ELSE Front(out)
                             [] OTHER -> Append(out, c),
           <<>>, path)

Normal == LexicalNormalize(cwd \o askedPath)
AlwaysFirst(f) == {s \in Servers : folderOf[s] = f} # {}  \* fault: the first of several is taken
OneServer(f) == Cardinality({s \in Servers : folderOf[s] = f}) = 1
Routed ==
  /\ Len(Normal) = 3
  /\ SubSeq(Normal, 1, 1) = Base
  /\ Normal[2] \in FolderNames /\ OneServer(Normal[2])
  /\ Normal[3] \in QueryNames
TargetServer == CHOOSE s \in Servers : folderOf[s] = Normal[2]

----------------------------------------------------------------------------
(* verify_within_dir *)

(* canonicalize: links are followed component by component.  (One level is *)
(* enough here: no link leads to another.)                                 *)
Canonical(path) ==
  FoldLeft(LAMBDA out, c :
             LET next == Append(out, c) IN IF next \in DOMAIN links THEN links[next] ELSE next,
           <<>>, path)
Trusting(path) == TRUE  \* fault: the text of the path is enough
VerifyWithinDir(path) == IsPrefix(Base, Canonical(path))

ResolveRouteTarget ==
  IF Routed /\ VerifyWithinDir(Base \o <<folderOf[TargetServer], Normal[3]>>)
    THEN <<TargetServer, Normal[3]>>
    ELSE NoTarget

----------------------------------------------------------------------------
OtInit ==
  /\ folderOf \in [Servers -> FolderNames]
  /\ links = <<>> /\ cwd = <<>> /\ askedPath = <<>>
  /\ resolved = FALSE
AskToOpen ==
  /\ ~resolved /\ resolved' = TRUE
  /\ \E p \in Paths : askedPath' = p
  /\ cwd' \in {<<>>, Base, Append(Base, CHOOSE f \in FolderNames : TRUE), Outside}
  /\ \/ links' = <<>>
     \/ \E at \in Linkable, to \in {Base, Outside} \cup Linkable :
          links' = [p \in {at} |-> IF Len(at) = 3 THEN Append(to, at[3]) ELSE to]
  /\ UNCHANGED folderOf
OtSpec == OtInit /\ [][AskToOpen]_otVars

----------------------------------------------------------------------------
(* Properties *)

Opened == Base \o <<folderOf[ResolveRouteTarget[1]], ResolveRouteTarget[2]>>

(* "Only queryfolio's data storage path is a target at the entity level":  *)
(* whatever `..` and links are in the way, the file is below the base.     *)
OnlyStoredFilesOpen ==
  ResolveRouteTarget # NoTarget => IsPrefix(Base, Canonical(Opened))

(* Another connection with the same folder could have other rights.        *)
ConnectionIsCertain ==
  ResolveRouteTarget # NoTarget =>
    \A s \in Servers : folderOf[s] = Opened[2] => s = ResolveRouteTarget[1]

(* The directory a shell would end in, walking the path; <<"?">> when the  *)
(* walk leaves the root or meets a link.                                   *)
RECURSIVE Walk(_, _)
Walk(at, path) ==
  CASE path = <<>> -> at
    [] path # <<>> /\ (at = <<"?">> \/ Append(at, path[1]) \in DOMAIN links) -> <<"?">>
    [] path # <<>> /\ path[1] = Here -> Walk(at, Tail(path))
    [] path # <<>> /\ path[1] = Up -> IF at = <<>> THEN Walk(at, Tail(path)) ELSE Walk(Front(at), Tail(path))
    [] OTHER -> Walk(Append(at, path[1]), Tail(path))

(* Without a link on the way, the file that opens is the one the path      *)
(* names for whoever typed it.                                             *)
NamedFileOpens ==
  ResolveRouteTarget # NoTarget /\ Walk(<<>>, cwd \o askedPath) # <<"?">> => Walk(<<>>, cwd \o askedPath) = Opened
=============================================================================
