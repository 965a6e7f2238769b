-------------------------- MODULE ExpressionScript ---------------------------
(* The expression compiler (lib/expression-script.ts), the BEBAS package      *)
(* import (lib/bebas-script-package.ts) and the server's check of a synthesis *)
(* request (server/validation.ts), as functions of a script.                  *)
(*                                                                            *)
(* A script is a sequence of symbols.  A tag name or a word is one symbol of  *)
(* length one; "astral" is a character outside the Basic Multilingual Plane,  *)
(* such as an emoji: one code point, but two of the UTF-16 units in which     *)
(* JavaScript counts strings.                                                 *)
EXTENDS Naturals, Sequences, FiniteSets, SequencesExt

CONSTANTS MaxSegments,     \* MAX_EXPRESSION_SEGMENTS
          MaxText,         \* 5000, the longest text a request may hold
          LongEvent,       \* 160, the length at which an event segment is long
          LongExpression   \* 300, the same for any other expression

ASSUME ScriptAssumption == MaxSegments \in Nat /\ MaxText \in Nat /\ LongEvent \in Nat /\ LongExpression \in Nat

LegacyTags == {"whispers", "laughs", "sighs", "excited", "angry", "gasp", "shouts",
               "crying", "panicked", "curious", "sarcastic"}
Tags == LegacyTags \cup {"warm", "calm", "reassuring", "persuasive"}
EventTags == {"laughs", "sighs", "gasp"}
NativeTags == {"laughs", "sighs"}          \* a token of the model, no instruction
ControlTags == Tags \ NativeTags
Dialects == {"bebas-v1", "bebas-v2"}
\* Mutant of Known: the older dialect takes the new tags, and the new one does not.
KnownSwapped(dialect) == IF dialect = "bebas-v1" THEN Tags ELSE LegacyTags
Known(dialect) == IF dialect = "bebas-v2" THEN Tags ELSE LegacyTags

Blank == {" ", "nl"}
Bracket == {"[", "]"}

------------------------------------------------------------------------------
(* Strings.                                                                   *)

Units(s) == Len(s) + Cardinality({i \in DOMAIN s : s[i] = "astral"})

\* String.prototype.trim
Trim(s) ==
  LET solid == {i \in DOMAIN s : s[i] \notin Blank}
  IN IF solid = {} THEN <<>> ELSE SubSeq(s, Min(solid), Max(solid))

\* A set of positions in order: the n-th has n of them up to itself.
Ascending(S) ==
  [n \in 1 .. Cardinality(S) |-> CHOOSE i \in S : Cardinality({h \in S : h <= i}) = n]
\* What s has at these positions, in order.
Pick(s, S) == LET at == Ascending(S) IN [k \in DOMAIN at |-> s[at[k]]]
Without(s, S) == Pick(s, {i \in DOMAIN s : s[i] \notin S})
Within(s, S) == Pick(s, {i \in DOMAIN s : s[i] \in S})

\* matchAll of \[([^\]\r\n]*)\]: each closing bracket ends a match that begins
\* at the first opening bracket since the last closing bracket or line end.
Openings(s, j) ==
  {i \in 1 .. j - 1 : s[i] = "[" /\ \A k \in i .. j - 1 : s[k] \notin {"]", "nl"}}
Matches(s) ==
  LET ends == Ascending({j \in DOMAIN s : s[j] = "]" /\ Openings(s, j) # {}})
  IN [n \in DOMAIN ends |-> <<Min(Openings(s, ends[n])), ends[n]>>]

------------------------------------------------------------------------------
(* compileExpressionScript.                                                   *)

EndsSentence(s, i) ==
  /\ s[i] \in {".", "!"}
  /\ i < Len(s) => s[i + 1] \in Blank \cup {"quote"}
Sentences(s) == Cardinality({i \in DOMAIN s : EndsSentence(s, i)})

LengthIssue(tags, text) ==
  IF Within(tags, EventTags) # <<>> /\ (Sentences(text) > 1 \/ Units(text) > LongEvent)
  THEN {"long-event-segment"}
  ELSE IF tags # <<>> /\ (Sentences(text) > 2 \/ Units(text) > LongExpression)
  THEN {"long-expression-segment"} ELSE {}

\* Mutant of AppendText: the pending tags are kept for the next text.
AppendTextKeepingTags(acc, raw) ==
  LET text == Trim(raw)
  IN IF text = <<>> THEN acc
     ELSE [acc EXCEPT !.segments = Append(@, [tags |-> acc.pending, text |-> text]),
                      !.issues = @ \cup LengthIssue(acc.pending, text)]

\* The closure appendText: the pending tags go to the text, unless it is blank.
AppendText(acc, raw) ==
  LET text == Trim(raw)
  IN IF text = <<>> THEN acc
     ELSE [acc EXCEPT !.segments = Append(@, [tags |-> acc.pending, text |-> text]),
                      !.issues = @ \cup LengthIssue(acc.pending, text),
                      !.pending = <<>>]

\* Mutant of ReadTag: a tag written twice is taken twice.
ReadTagAgain(acc, s, match, dialect) ==
  LET before == AppendText(acc, SubSeq(s, acc.cursor, match[1] - 1))
      next == [before EXCEPT !.cursor = match[2] + 1]
      name == Trim(SubSeq(s, match[1] + 1, match[2] - 1))
  IN IF \A tag \in Known(dialect) : name # <<tag>>
     THEN [next EXCEPT !.issues = @ \cup {"unknown-tag"}, !.pending = <<>>]
     ELSE [next EXCEPT !.pending = Append(@, name[1]), !.count = @ + 1]

\* One match: the text before it, then the tag.
ReadTag(acc, s, match, dialect) ==
  LET before == AppendText(acc, SubSeq(s, acc.cursor, match[1] - 1))
      next == [before EXCEPT !.cursor = match[2] + 1]
      name == Trim(SubSeq(s, match[1] + 1, match[2] - 1))
  IN IF \A tag \in Known(dialect) : name # <<tag>>
     THEN [next EXCEPT !.issues = @ \cup {"unknown-tag"}, !.pending = <<>>]
     ELSE IF name[1] \in ToSet(next.pending)
     THEN [next EXCEPT !.issues = @ \cup {"duplicate-tag"}, !.count = @ + 1]
     ELSE [next EXCEPT !.pending = Append(@, name[1]), !.count = @ + 1]

Start == [segments |-> <<>>, pending |-> <<>>, issues |-> {}, count |-> 0, cursor |-> 1]
\* What has been read after n matches, for each n.
Reading(s, dialect) ==
  LET matches == Matches(s)
      read[n \in 0 .. Len(matches)] ==
        IF n = 0 THEN Start ELSE ReadTag(read[n - 1], s, matches[n], dialect)
  IN read

ReadScript(s, dialect) ==
  LET read == Reading(s, dialect)[Len(Matches(s))]
  IN AppendText(read, SubSeq(s, read.cursor, Len(s)))

\* The mask is an array of code points, but is blanked at the UTF-16 offsets of
\* the matches.
Masked(s) ==
  LET matches == Matches(s)
  IN {k \in DOMAIN s : \E n \in DOMAIN matches :
        Units(SubSeq(s, 1, matches[n][1] - 1)) < k /\ k <= Units(SubSeq(s, 1, matches[n][2]))}
\* Mutant of Malformed: only an opening bracket is looked for.
OpenBracketLeft(s) == \E k \in DOMAIN s \ Masked(s) : s[k] = "["
Malformed(s) == \E k \in DOMAIN s \ Masked(s) : s[k] \in Bracket

\* The silence after a segment, by the last mark of its text, quoted or not.
Pause(text) ==
  LET n == Len(text)
      mark == IF text[n] = "quote" /\ n > 1 THEN text[n - 1] ELSE text[n]
  IN CASE mark = "!" -> 280 [] mark = "." -> 220 [] mark = "," -> 140 [] OTHER -> 180

Segment(segments, i) ==
  [tags |-> segments[i].tags,
   text |-> segments[i].text,
   control |-> Within(segments[i].tags, ControlTags),
   native |-> Within(segments[i].tags, NativeTags),
   pause |-> IF i < Len(segments) THEN Pause(segments[i].text) ELSE 0]

Errors == {"unknown-tag", "malformed-tag", "dangling-tag", "too-many-segments"}

\* What is wrong with a script, once it is read.
IssuesOf(s, read) ==
  read.issues
    \cup (IF read.pending # <<>> THEN {"dangling-tag"} ELSE {})
    \cup (IF Malformed(s) THEN {"malformed-tag"} ELSE {})
    \cup (IF Len(read.segments) > MaxSegments THEN {"too-many-segments"} ELSE {})

CompiledFrom(s, read) ==
  [segments |-> [i \in DOMAIN read.segments |-> Segment(read.segments, i)],
   issues |-> IssuesOf(s, read),
   tagCount |-> read.count,
   isValid |-> IssuesOf(s, read) \cap Errors = {}]

Compile(s, dialect) == CompiledFrom(s, ReadScript(s, dialect))

------------------------------------------------------------------------------
(* What accepts a script.                                                     *)

\* parseBebasScriptPackage; a package keeps its trimmed script.
PackageAccepted(s, dialect) ==
  LET script == Trim(s)
  IN script # <<>> /\ Units(script) <= MaxText /\ Compile(script, dialect).isValid

\* parseSynthesisRequest, as far as it looks at the text.
RequestAccepted(s, mode) ==
  LET compiled == Compile(s, "bebas-v2")
  IN /\ Trim(s) # <<>> /\ Units(s) <= MaxText
     /\ compiled.isValid
     /\ mode = "hifi" => compiled.tagCount = 0

\* The segments POST /api/v1/jobs hands to the worker: none for a plain script.
JobSegments(s) ==
  LET compiled == Compile(s, "bebas-v2")
  IN IF compiled.tagCount > 0 THEN compiled.segments ELSE <<>>

\* What worker/app/models.py demands of them.  The text the worker gets begins
\* with the native tokens, of which "[laughing]" is longer than its tag
\* "[laughs]" by LaughExcess.  Control instructions stay within max_length as
\* long as none is said twice.
LaughExcess == 3
TargetUnits(segment) ==
  Units(segment.text) + 3 * Len(segment.native)
    + (IF "laughs" \in ToSet(segment.native) THEN LaughExcess ELSE 0)
WorkerTakes(segments) ==
  /\ Len(segments) <= MaxSegments
  /\ \A i \in DOMAIN segments :
       /\ TargetUnits(segments[i]) \in 1 .. MaxText
       /\ segments[i].pause \in 0 .. 2000
       /\ IsInjective(segments[i].control)
------------------------------------------------------------------------------
(* What the compiler is for, of any script s.                                 *)

\* The compiled segments are the spoken stretches of the script, each with the
\* tags written since the stretch before it; a tag that is not known voids
\* those before it.
\* Declared position by position, without the compiler's cursor: the compiler
\* must not lose, repeat or move text, or give a tag to the wrong stretch.
Covered(M, i) == \E m \in M : m[1] <= i /\ i <= m[2]
Spoken(s, M) == {i \in DOMAIN s : ~ Covered(M, i) /\ s[i] \notin Blank}
Starts(spoken, M) ==
  {i \in spoken : \A h \in spoken : h < i => \E k \in h .. i : Covered(M, k)}
NameOf(s, m) == Trim(SubSeq(s, m[1] + 1, m[2] - 1))
Named(s, m, dialect) == \E tag \in Known(dialect) : NameOf(s, m) = <<tag>>
TagsBefore(s, M, spoken, i, dialect) ==
  {NameOf(s, m)[1] : m \in {m \in M :
     /\ Named(s, m, dialect) /\ m[2] < i
     /\ \A h \in spoken : h < i => h < m[1]
     /\ \A n \in M : m[1] < n[1] /\ n[2] < i => Named(s, n, dialect)}}
StretchFrom(spoken, starts, i) ==
  {k \in spoken : i <= k /\ \A j \in starts : i < j => k < j}

SegmentsAreStretches(s) ==
  LET M == ToSet(Matches(s))
      spoken == Spoken(s, M)
      starts == Starts(spoken, M)
      first == Ascending(starts)
  IN \A dialect \in Dialects :
       LET segments == Compile(s, dialect).segments
       IN /\ Len(segments) = Len(first)
          /\ \A n \in DOMAIN segments :
               /\ ToSet(segments[n].tags) = TagsBefore(s, M, spoken, first[n], dialect)
               /\ Without(segments[n].text, Blank) = Pick(s, StretchFrom(spoken, starts, first[n]))

\* Raw tags are never sent to the speech model (README.md:40): no bracket is
\* left in a text the server accepts, tagged or plain, whatever was written
\* around it.
RawTagsWithheld(s) ==
  RequestAccepted(s, "tts") =>
    IF JobSegments(s) = <<>> THEN Within(s, Bracket) = <<>>
    ELSE \A i \in DOMAIN JobSegments(s) : Within(JobSegments(s)[i].text, Bracket) = <<>>

\* A package that imports can be submitted, and a package of the older dialect
\* compiles to the same segments under the current one, which is all that the
\* editor and the server ever use.
PackagesSubmit(s) ==
  \A dialect \in Dialects :
    PackageAccepted(s, dialect) =>
      /\ RequestAccepted(Trim(s), "tts")
      /\ Compile(Trim(s), dialect).segments = Compile(Trim(s), "bebas-v2").segments

\* The worker does not refuse a job the server accepted, as long as the text
\* leaves room for the longer token of a laugh.
SegmentsFitWorker(s) ==
  \A mode \in {"tts", "hifi"} :
    RequestAccepted(s, mode) =>
      /\ Units(s) + LaughExcess <= MaxText => WorkerTakes(JobSegments(s))
      /\ mode = "hifi" => JobSegments(s) = <<>>

\* "The tag has incomplete square brackets" (expression-script.ts:340) is said
\* only of scripts that have them: a script whose brackets all belong to known
\* tags, each followed by text, and whose segments are few enough, is valid.
WellFormed(s) ==
  LET M == ToSet(Matches(s))
      spoken == Spoken(s, M)
  IN /\ \A i \in DOMAIN s : s[i] \in Bracket => Covered(M, i)
     /\ \A m \in M : Named(s, m, "bebas-v2") /\ \E i \in spoken : m[2] < i
     /\ Cardinality(Starts(spoken, M)) <= MaxSegments
WellFormedIsValid(s) == WellFormed(s) => Compile(s, "bebas-v2").isValid
\* What it is said of besides: a script with a character of two UTF-16 units
\* before the end of a tag.
AstralBeforeTag(s) == \E m \in ToSet(Matches(s)) : \E i \in 1 .. m[2] : s[i] = "astral"
==============================================================================
