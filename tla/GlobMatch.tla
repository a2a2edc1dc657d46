----------------------------- MODULE GlobMatch -----------------------------
(***************************************************************************)
(* The wildcard matcher of ~/.ssh/config's Host patterns (tunnel.rs:       *)
(* glob_match), one action per round of its loop: it goes back to the last *)
(* star instead of trying every way to split the text.                     *)
(***************************************************************************)
EXTENDS Naturals, Sequences, SequencesExt

CONSTANTS
  Letters,        \* the characters of host names
  AnyOne, AnyRun, \* `?` and `*`
  MaxGlob         \* bound: the length of a pattern and of a text

ASSUME GlobAssumption == AnyOne \notin Letters /\ AnyRun \notin Letters \cup {AnyOne} /\ MaxGlob \in Nat

VARIABLES
  pattern, subject,
  pi, ti,      \* how much of each is matched
  star, mark,  \* the last star's position and the text's when it took its last character; 0: none
  matched      \* "?" while running, then TRUE or FALSE as text

glVars == <<pattern, subject, pi, ti, star, mark, matched>>

Patterns == BoundedSeq(Letters \cup {AnyOne, AnyRun}, MaxGlob)
Texts == BoundedSeq(Letters, MaxGlob)

GlTypeOK ==
  /\ pattern \in Seq(Letters \cup {AnyOne, AnyRun}) /\ subject \in Seq(Letters)
  /\ pi \in 0 .. Len(pattern) /\ ti \in 0 .. Len(subject)
  /\ star \in 0 .. Len(pattern) /\ mark \in 0 .. Len(subject)
  /\ matched \in {"idle", "running", "yes", "no"}

GlInit ==
  /\ pattern = <<>> /\ subject = <<>>
  /\ pi = 0 /\ ti = 0 /\ star = 0 /\ mark = 0
  /\ matched = "idle"

BeginMatch ==
  /\ matched = "idle"
  /\ \E p \in Patterns, t \in Texts : pattern' = p /\ subject' = t
  /\ matched' = "running"
  /\ UNCHANGED <<pi, ti, star, mark>>

Ongoing == matched = "running" /\ ti < Len(subject)
SameHere == pi < Len(pattern) /\ pattern[pi + 1] \in {AnyOne, subject[ti + 1]}
StarHere == pi < Len(pattern) /\ pattern[pi + 1] = AnyRun

MatchCharacter ==
  /\ Ongoing /\ SameHere
  /\ pi' = pi + 1 /\ ti' = ti + 1
  /\ UNCHANGED <<pattern, subject, star, mark, matched>>

(* The star stands for nothing, to begin with.                             *)
MeetStar ==
  /\ Ongoing /\ ~SameHere /\ StarHere
  /\ pi' = pi + 1
  /\ star' = pi + 1 /\ mark' = ti
  /\ UNCHANGED <<pattern, subject, ti, matched>>

RetryAtOnce == ti + 1  \* fault: goes on where it failed
RetryAfterMark == mark + 1
(* The last star takes one character more.                                 *)
BackToStar ==
  /\ Ongoing /\ ~SameHere /\ ~StarHere /\ star # 0
  /\ pi' = star
  /\ mark' = RetryAfterMark /\ ti' = RetryAfterMark
  /\ UNCHANGED <<pattern, subject, star, matched>>

Mismatch ==
  /\ Ongoing /\ ~SameHere /\ ~StarHere /\ star = 0
  /\ matched' = "no"
  /\ UNCHANGED <<pattern, subject, pi, ti, star, mark>>

(* Only stars may be left of the pattern.                                  *)
EndOfText ==
  /\ matched = "running" /\ ti = Len(subject)
  /\ matched' = IF \A i \in pi + 1 .. Len(pattern) : pattern[i] = AnyRun THEN "yes" ELSE "no"
  /\ UNCHANGED <<pattern, subject, pi, ti, star, mark>>

GlNext == BeginMatch \/ MatchCharacter \/ MeetStar \/ BackToStar \/ Mismatch \/ EndOfText
GlSpec == GlInit /\ [][GlNext]_glVars
GlFairSpec == GlSpec /\ WF_glVars(GlNext)

----------------------------------------------------------------------------
(* Properties *)

(* What a glob means: the first i elements of the pattern match the first  *)
(* j characters of the text.                                               *)
MatchesUpTo(p, t) ==
  LET m[i \in 0 .. Len(p), j \in 0 .. Len(t)] ==
        CASE i = 0 -> j = 0
          [] p[i] = AnyRun -> m[i - 1, j] \/ (j > 0 /\ m[i, j - 1])
          [] OTHER -> j > 0 /\ p[i] \in {AnyOne, t[j]} /\ m[i - 1, j - 1]
  IN m[Len(p), Len(t)]

(* The matcher's answer is the glob's meaning for every pattern and text,  *)
(* though it never returns to a star before the last one.                  *)
GlobIsExact ==
  matched \in {"yes", "no"} => (matched = "yes" <=> MatchesUpTo(pattern, subject))

(* It ends: going back always takes one more character.                    *)
GlobEnds == matched = "running" ~> matched \in {"yes", "no"}
=============================================================================
