------------------------------ MODULE Selector ------------------------------
(***************************************************************************)
(* Label selectors (`env in (prod,staging),!retired'): the parser, and the *)
(* two ways a parsed selector is evaluated: Matches, over the labels of a  *)
(* system in memory, which the fleet's list, schedules and alert rules     *)
(* use, and SQL, the WHERE fragment the package also offers.               *)
(*                                                                         *)
(* An input is a sequence of tokens; an identifier is itself.  Every value *)
(* that is legal is legal as a key; those of KeyOnly are not legal as      *)
(* values (they hold a `/'), and of these those that are not LegalKeys     *)
(* (`/k') are legal as neither.  Any other token is its kind.              *)
(***************************************************************************)
EXTENDS Integers, Sequences

CONSTANTS Idents, KeyOnly,   \* identifiers, "in" and "notin" among them
          LegalKeys,         \* what ValidateKey accepts
          Inputs,            \* token sequences
          MaxList,           \* bound: the length of the lists of sentences
          LabelValues        \* what a system may have at a key

Signs == {"tokEq", "tokNotEq", "tokBang", "tokComma", "tokLParen", "tokRParen"}
Tokens == Idents \cup Signs
EmptyValue == "empty"   \* the value without a character

ASSUME SelectorAssumption ==
    /\ {"in", "notin"} \subseteq Idents /\ KeyOnly \subseteq Idents
    /\ LegalKeys \subseteq Idents /\ Idents \subseteq LegalKeys \cup KeyOnly
    /\ Idents \cap (Signs \cup {EmptyValue}) = {}
    /\ Inputs \subseteq Seq(Tokens) /\ MaxList \in Nat

VARIABLES toks,   \* the tokens
          pos,    \* how many are consumed
          req,    \* the requirement being read
          sel,    \* the requirements read so far
          selPc   \* where the parser is

selVars == <<toks, pos, req, sel, selPc>>

NoReq == [op |-> "none"]
eof == pos >= Len(toks)
peek == toks[pos + 1]
Peeks(set) == ~eof /\ peek \in set

SelectorOff == toks = <<>> /\ pos = 0 /\ req = NoReq /\ sel = <<>> /\ selPc = "off"
SelectorInit ==
    /\ toks \in Inputs /\ pos = 0 /\ req = NoReq /\ sel = <<>>
    /\ selPc = IF toks = <<>> THEN "done" ELSE "requirement"

\* Consume n tokens and go on at pc; fail; complete a requirement.
Go(n, pc, r) == pos' = pos + n /\ selPc' = pc /\ req' = r /\ UNCHANGED <<toks, sel>>
Fail == selPc' = "error" /\ UNCHANGED <<toks, pos, req, sel>>
Emit(n, r) ==
    /\ pos' = pos + n /\ sel' = Append(sel, r) /\ req' = NoReq
    /\ selPc' = "separator" /\ UNCHANGED toks

Req(op, key, values) == [op |-> op, key |-> key, values |-> values]

-----------------------------------------------------------------------------
\* parseRequirement up to the key: `!key', or a key.
ParseKey ==
    /\ selPc = "requirement"
    /\ \/ Peeks({"tokBang"}) /\ IF pos + 1 < Len(toks) /\ toks[pos + 2] \in LegalKeys
                          THEN Emit(2, Req("nothas", toks[pos + 2], <<>>)) ELSE Fail
       \/ Peeks(LegalKeys) /\ Go(1, "operator", Req("has", peek, <<>>))
       \/ ~Peeks(LegalKeys \cup {"tokBang"}) /\ Fail

\* What follows a key.
ParseOperator ==
    /\ selPc = "operator"
    /\ \/ (eof \/ Peeks({"tokComma"})) /\ Emit(0, req)
       \/ Peeks({"tokEq"}) /\ Go(1, "value", [req EXCEPT !.op = "eq"])
       \/ Peeks({"tokNotEq"}) /\ Go(1, "value", [req EXCEPT !.op = "noteq"])
       \/ Peeks({"in"}) /\ Go(1, "open", [req EXCEPT !.op = "in"])
       \/ Peeks({"notin"}) /\ Go(1, "open", [req EXCEPT !.op = "notin"])
       \/ ~eof /\ peek \notin {"tokComma", "tokEq", "tokNotEq", "in", "notin"} /\ Fail

\* parseValue: `env=' is the empty value.
ParseValue ==
    /\ selPc = "value"
    /\ \/ (eof \/ Peeks({"tokComma"})) /\ Emit(0, [req EXCEPT !.values = <<EmptyValue>>])
       \/ Peeks(Idents \ KeyOnly) /\ Emit(1, [req EXCEPT !.values = <<peek>>])
       \/ ~eof /\ peek \notin {"tokComma"} \cup (Idents \ KeyOnly) /\ Fail

\* parseValueList: the parenthesis, with something after it.
OpenList ==
    /\ selPc = "open"
    /\ IF Peeks({"tokLParen"}) /\ pos + 1 < Len(toks) THEN Go(1, "list", req) ELSE Fail

\* Mutant: an empty place in a list is passed over.
ListValue_skipsEmpty ==
    /\ selPc = "list"
    /\ \/ eof /\ selPc' = "panic" /\ UNCHANGED <<toks, pos, req, sel>>
       \/ Peeks({"tokRParen"}) /\ Fail
       \/ Peeks({"tokComma"}) /\ Go(1, "list", req)
       \/ Peeks(Idents \ KeyOnly) /\ Go(1, "next", [req EXCEPT !.values = Append(@, peek)])
       \/ ~eof /\ peek \notin {"tokRParen", "tokComma"} \cup (Idents \ KeyOnly) /\ Fail

(* The top of the loop over a list's values.  It peeks at the next token   *)
(* without looking for the end of the input: past the end that is a panic. *)
ListValue ==
    /\ selPc = "list"
    /\ \/ eof /\ selPc' = "panic" /\ UNCHANGED <<toks, pos, req, sel>>
       \/ Peeks({"tokRParen"}) /\ Fail
       \/ Peeks({"tokComma"}) /\ Go(0, "next", [req EXCEPT !.values = Append(@, EmptyValue)])
       \/ Peeks(Idents \ KeyOnly) /\ Go(1, "next", [req EXCEPT !.values = Append(@, peek)])
       \/ ~eof /\ peek \notin {"tokRParen", "tokComma"} \cup (Idents \ KeyOnly) /\ Fail

\* After a value: the end of the list, or a comma and another.
ListSeparator ==
    /\ selPc = "next"
    /\ \/ Peeks({"tokRParen"}) /\ Emit(1, req)
       \/ Peeks({"tokComma"}) /\ Go(1, "list", req)
       \/ ~Peeks({"tokRParen", "tokComma"}) /\ Fail

\* ParseSelector between requirements.
Separator ==
    /\ selPc = "separator"
    /\ \/ eof /\ Go(0, "done", NoReq)
       \/ Peeks({"tokComma"}) /\ Go(1, "requirement", NoReq)
       \/ ~eof /\ peek # "tokComma" /\ Fail

SelectorNext == ParseKey \/ ParseOperator \/ ParseValue \/ OpenList \/ ListValue
                \/ ListSeparator \/ Separator

SelectorSpec == SelectorInit /\ [][SelectorNext]_selVars

-----------------------------------------------------------------------------
\* A system's labels: the value of each key, NULL for a bare tag, or absent.
Absent == "absent"
NULL == "NULL"

Values == Idents \ KeyOnly

InValues(v, r) == \E i \in 1..Len(r.values) : r.values[i] = v

\* Requirement.matches.
matches(r, byKey) ==
    LET v == byKey[r.key]  present == v # Absent IN
    CASE r.op = "has" -> present
      [] r.op = "nothas" -> ~present
      [] r.op = "eq" -> present /\ v # NULL /\ v = r.values[1]
      [] r.op = "noteq" -> ~present \/ v = NULL \/ v # r.values[1]
      [] r.op = "in" -> present /\ v # NULL /\ InValues(v, r)
      [] r.op = "notin" -> ~present \/ v = NULL \/ ~InValues(v, r)

MatchesAll(s, byKey) == \A i \in 1..Len(s) : matches(s[i], byKey)

(* Requirement.sql: EXISTS over the rows of system_labels with the key     *)
(* and, for all but has and nothas, a value that compares equal to one of  *)
(* the arguments; a NULL compares equal to nothing.                        *)
sqlRow(r, byKey) == byKey[r.key] # Absent /\
    (r.op \in {"has", "nothas"} \/ (byKey[r.key] # NULL /\ InValues(byKey[r.key], r)))
sql(r, byKey) == IF r.op \in {"has", "eq", "in"} THEN sqlRow(r, byKey) ELSE ~sqlRow(r, byKey)

SQL(s, byKey) == \A i \in 1..Len(s) : sql(s[i], byKey)
-----------------------------------------------------------------------------
\* The first n of some texts with commas between them, for every n.
Joins(texts) ==
    LET f[n \in 1..Len(texts)] ==
            IF n = 1 THEN texts[1] ELSE f[n - 1] \o <<"tokComma">> \o texts[n]
    IN f

Word(v) == IF v = EmptyValue THEN <<>> ELSE <<v>>
ListOf(vs) == Joins([i \in 1..Len(vs) |-> Word(vs[i])])[Len(vs)]

\* What a requirement is written as.
Sentence(r) ==
    CASE r.op = "has" -> <<r.key>>
      [] r.op = "nothas" -> <<"tokBang", r.key>>
      [] r.op = "eq" -> <<r.key, "tokEq">> \o Word(r.values[1])
      [] r.op = "noteq" -> <<r.key, "tokNotEq">> \o Word(r.values[1])
      [] OTHER -> <<r.key, r.op, "tokLParen">> \o ListOf(r.values) \o <<"tokRParen">>
Written(s) ==
    IF s = <<>> THEN <<>> ELSE Joins([i \in 1..Len(s) |-> Sentence(s[i])])[Len(s)]

(* What the parser accepts is what it understood: written out again, the   *)
(* requirements are the input, each with the values its operator needs.    *)
ParsesWhatIsWritten ==
    selPc = "done" =>
        /\ Written(sel) = toks
        /\ \A i \in 1..Len(sel) :
            CASE sel[i].op \in {"has", "nothas"} -> sel[i].values = <<>>
              [] sel[i].op \in {"eq", "noteq"} -> Len(sel[i].values) = 1
              [] OTHER -> /\ sel[i].values # <<>>
                          /\ sel[i].values[Len(sel[i].values)] # EmptyValue

(* No sentence of the grammar is refused: `env=' and `env!=' have the      *)
(* empty value, and so has a place before a comma of a list.               *)
Requirements ==
         [op : {"has", "nothas"}, key : LegalKeys, values : {<<>>}]
    \cup [op : {"eq", "noteq"}, key : LegalKeys,
          values : {<<v>> : v \in Values \cup {EmptyValue}}]
    \cup [op : {"in", "notin"}, key : LegalKeys,
          values : {vs \in UNION {[1..n -> Values \cup {EmptyValue}] : n \in 1..MaxList} :
                        vs[Len(vs)] # EmptyValue}]
Sentences == {Sentence(r) : r \in Requirements}
AcceptsTheGrammar == selPc \in {"error", "panic"} => toks \notin Sentences

(* The parser reads past its input only where a list breaks off after a    *)
(* comma.                                                                  *)
PanicsOnlyAfterListComma ==
    selPc = "panic" =>
        /\ toks[Len(toks)] = "tokComma"
        /\ \E i \in 1..Len(toks) : /\ toks[i] = "tokLParen"
                                  /\ \A j \in i..Len(toks) : toks[j] # "tokRParen"

(* The two evaluations pick the same systems for the same text, bare tags  *)
(* and empty values included: a caller may choose either.                  *)
Labellings == [LegalKeys -> LabelValues]
SQLAgreesWithMatches ==
    selPc = "done" => \A byKey \in Labellings : MatchesAll(sel, byKey) = SQL(sel, byKey)

(* A selector means what is written: it is understood as a whole or refused*)
(* with reason, and both evaluations pick the systems it describes.        *)
SelectsWhatIsWritten ==
    /\ ParsesWhatIsWritten /\ AcceptsTheGrammar
    /\ PanicsOnlyAfterListComma
    /\ SQLAgreesWithMatches
==============================================================================
