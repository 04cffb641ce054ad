---------------------------- MODULE ReactParser ----------------------------
(***************************************************************************)
(* llm/react.py: how one reply of a model that cannot call tools becomes a *)
(* step.  Pure operators; Reasoning drives them.                           *)
(*                                                                         *)
(* A reply is a sequence of lines.  A line is what the four regular        *)
(* expressions of the parser see of it:                                    *)
(*   fence    a ``` line                                                   *)
(*   thought  "Thought: arg", arg possibly empty                           *)
(*   action   "Action: arg"; arg = "" stands for "Action:" and only blanks *)
(*   input    "Action Input: arg", arg the JSON text after the colon       *)
(*   final    "Final Answer: arg", arg possibly empty                      *)
(*   other    any other line; arg = "" is a blank line                     *)
(* A JSON text is an object ("fits" the tool's model, "unfit", "empty"), a *)
(* value that is no object (the empty list, "pairs", which dict() turns    *)
(* into {}, or a "scalar", which dict() refuses), not JSON at all          *)
(* ("malformed"), or holds an integer longer than int() accepts            *)
(* ("overlong").                                                           *)
(***************************************************************************)
EXTENDS Selections, FiniteSetsExt

Objects == { "fits", "unfit", "empty" }
JsonTexts == Objects \cup { "pairs", "scalar", "malformed", "overlong" }

StepKinds == { "action", "final", "error", "raise" }

IsBlank(line) == line.form = "other" /\ line.arg = ""

\* _strip_fences; the padding strip() removes is blank and matters only to
\* an action line without a name (ActionLines).
Unfenced(text)    == { i \in DOMAIN text : text[i].form # "fence" }
StripFences(text) == Selected(text, Unfenced(text))

LinesOf(t, form) == { i \in DOMAIN t : t[i].form = form }

\* Whether anything but blanks follows line i.
Followed(t, i) == \E j \in DOMAIN t : j > i /\ ~ IsBlank(t[j])

\* _ACTION wants one character after the colon: a nameless action line has
\* one, unless it is the last and the padding went with strip().
ActionLines(t) ==
  { i \in LinesOf(t, "action") : t[i].arg # "" \/ Followed(t, i) }

\* Slip: the last match, as re.findall(...)[-1] would find it.
LastArg(t, lines) == t[Max(lines)].arg

\* The argument of the first of a set of lines, as re.search finds it.
FirstArg(t, lines) == t[Min(lines)].arg

\* _first_thought: None and the empty thought are alike to the caller.
FirstThought(t) ==
  IF LinesOf(t, "thought") = {} THEN "" ELSE FirstArg(t, LinesOf(t, "thought"))

\* json.loads raises JSONDecodeError on a malformed text, which is caught,
\* and a plain ValueError on an overlong integer, which is not.
InputKind(json) ==
  CASE json \in Objects    -> "action"
    [] json = "overlong"   -> "raise"
    [] OTHER               -> "error"

Ambiguous(actions, finals) == actions # {} /\ finals # {}

\* parse_react.  name and args matter to an action step only.
ParseReact(text) ==
  LET t       == StripFences(text)
      actions == ActionLines(t)
      finals  == LinesOf(t, "final")
      inputs  == LinesOf(t, "input")
      Step(kind) == [ kind |-> kind, thought |-> FirstThought(t),
                      name |-> "", args |-> "empty" ]
  IN  IF Ambiguous(actions, finals) THEN Step("error")
      ELSE IF finals # {} THEN
        IF FirstArg(t, finals) # "" \/ Followed(t, Min(finals))
          THEN Step("final") ELSE Step("error")
      ELSE IF actions = {} \/ inputs = {} THEN Step("error")
      ELSE LET kind == InputKind(FirstArg(t, inputs))
           IN  IF kind # "action" THEN Step(kind)
               ELSE [ Step(kind) EXCEPT !.name = FirstArg(t, actions),
                                        !.args = FirstArg(t, inputs) ]

\* Of a reply that parses, any first lines (a token limit cut the rest off)
\* call the tool the whole reply calls, with the same arguments, or call none.
CutIsSafe(text) ==
  LET whole == ParseReact(text) IN
  \A n \in 0..Len(text) :
    LET cut == ParseReact(SubSeq(text, 1, n)) IN
    (cut.kind = "action" /\ whole.kind \in {"action", "final"})
      => (whole.kind = "action" /\ cut.name = whole.name /\ cut.args = whole.args)
=============================================================================
