------------------------------- MODULE Grammar -------------------------------
(***************************************************************************)
(* The text of a .warp file.  First its formulas: values of a policy that   *)
(* are computed - expressions over a commitment's context, how they are     *)
(* evaluated, how the formatter writes them and how the parser reads them   *)
(* back.  A literal expression and a value are the same record.  Plain      *)
(* numbers (0.75) are kept in hundredths; the instances choose operands     *)
(* that divide evenly.                                                      *)
(*                                                                         *)
(* Then the file, and the formatter on it.  A file is a sequence of lines,  *)
(* each with its words and the comment at its end; the lexer numbers the    *)
(* words by line and collects the comments beside them, the parser builds    *)
(* the document from the words, and the printer lays the document out anew   *)
(* while it puts the comments back by their line.  Author and formatter take *)
(* turns on the file.                                                        *)
(***************************************************************************)
EXTENDS CommerceModel, SequencesExt

CONSTANT Formulas   \* the expressions an author may write

\* Expressions.
MoneyLit(n, cur)  == [kind |-> "money", amount |-> n, currency |-> cur]
NumberLit(n)      == [kind |-> "number", amount |-> n, currency |-> None]
Var(name)         == [kind |-> "var", name |-> name]
Binary(op, l, r)  == [kind |-> "binary", op |-> op, left |-> l, right |-> r]
Call(fn, args)    == [kind |-> "call", fn |-> fn, args |-> args]

ContextVariables == {"committed", "quantity", "term_days", "elapsed_days", "remaining_days"}

Undefined == [kind |-> "error", amount |-> 0, currency |-> None]

Times100(a, b) == (a * b) \div 100
Over100(a, b)  == (100 * a) \div b

\* applyBinary: money adds to money of its currency and scales by plain numbers.
ApplyBinary(op, l, r) ==
  CASE l.kind = "number" /\ r.kind = "number" ->
         CASE op = "+" -> NumberLit(l.amount + r.amount)
           [] op = "-" -> NumberLit(l.amount - r.amount)
           [] op = "*" -> NumberLit(Times100(l.amount, r.amount))
           [] OTHER    -> IF r.amount = 0 THEN Undefined ELSE NumberLit(Over100(l.amount, r.amount))
    [] l.kind = "money" /\ r.kind = "money" ->
         CASE l.currency # r.currency -> Undefined
           [] op = "+" -> MoneyLit(l.amount + r.amount, l.currency)
           [] op = "-" -> MoneyLit(l.amount - r.amount, l.currency)
           [] OTHER    -> Undefined
    [] OTHER ->
         LET m == IF l.kind = "money" THEN l ELSE r
             k == IF l.kind = "money" THEN r ELSE l
         IN CASE op = "*" -> MoneyLit(Times100(m.amount, k.amount), m.currency)
              [] op = "/" /\ l = m /\ k.amount # 0 -> MoneyLit(Over100(m.amount, k.amount), m.currency)
              [] OTHER -> Undefined

\* The running minimum or maximum; of two equal values the first.
Pick(fn, acc, v) ==
  CASE Undefined \in {acc, v} \/ acc.kind # v.kind \/ acc.currency # v.currency -> Undefined
    [] fn = "min" /\ v.amount < acc.amount -> v
    [] fn = "max" /\ v.amount > acc.amount -> v
    [] OTHER -> acc

\* ctx is a function from the context variables that are available to values.
RECURSIVE Evaluate(_, _)
Evaluate(e, ctx) ==
  CASE e.kind = "var"    -> IF e.name \in DOMAIN ctx THEN ctx[e.name] ELSE Undefined
    [] e.kind = "binary" -> LET l == Evaluate(e.left, ctx)
                                r == Evaluate(e.right, ctx)
                            IN IF Undefined \in {l, r} THEN Undefined ELSE ApplyBinary(e.op, l, r)
    [] e.kind = "call"   -> LET values == [i \in DOMAIN e.args |-> Evaluate(e.args[i], ctx)]
                            IN FoldLeft(LAMBDA acc, v : Pick(e.fn, acc, v), values[1], Tail(values))
    [] OTHER             -> e

RECURSIVE VariablesOf(_)
VariablesOf(e) ==
  CASE e.kind = "var"    -> {e.name}
    [] e.kind = "binary" -> VariablesOf(e.left) \cup VariablesOf(e.right)
    [] e.kind = "call"   -> UNION {VariablesOf(e.args[i]) : i \in DOMAIN e.args}
    [] OTHER             -> {}

IsConstant(e) == VariablesOf(e) = {}

-----------------------------------------------------------------------------
(* Written form: a sequence of tokens [type, word].                        *)

Token(type, word) == [type |-> type, word |-> word]
Open  == <<Token("lparen", "(")>>
Close == <<Token("rparen", ")")>>
Comma == <<Token("comma", ",")>>

Precedence(e) ==
  CASE e.kind # "binary"    -> 3
    [] e.op \in {"*", "/"}  -> 2
    [] OTHER                -> 1

\* Operators group to the left, so a right operand of equal strength is a group too.
RightNeedsParens(e) ==
  \/ Precedence(e.right) < Precedence(e)
  \/ Precedence(e.right) = Precedence(e) /\ e.right.kind = "binary"

\* formatExprCanonical.
RECURSIVE Canonical(_)
Canonical(e) ==
  LET grouped(x, needed) == IF needed THEN Open \o Canonical(x) \o Close ELSE Canonical(x)
  IN CASE e.kind = "money"  -> <<Token("number", e.amount), Token("ident", e.currency)>>
       [] e.kind = "number" -> <<Token("number", e.amount)>>
       [] e.kind = "var"    -> <<Token("ident", e.name)>>
       [] e.kind = "call"   ->
            <<Token("ident", e.fn)>> \o Open
              \o FoldLeft(LAMBDA text, a : text \o Comma \o Canonical(a), Canonical(e.args[1]), Tail(e.args))
              \o Close
       [] OTHER ->
            grouped(e.left, Precedence(e.left) < Precedence(e))
              \o <<Token("op", e.op)>>
              \o grouped(e.right, RightNeedsParens(e))

\* What a parsing function returns: the expression read and the tokens that are left,
\* or a syntax error.
Read(e, rest) == [kind |-> "read", expr |-> e, rest |-> rest]
SyntaxError   == [kind |-> "syntax", expr |-> Undefined, rest |-> <<>>]

Ahead(tokens, type) == tokens # <<>> /\ Head(tokens).type = type
AheadOp(tokens, ops) == Ahead(tokens, "op") /\ Head(tokens).word \in ops
AheadCurrency(tokens) == Ahead(tokens, "ident") /\ Head(tokens).word \in Currencies
AheadFunction(tokens) == Ahead(tokens, "ident") /\ Head(tokens).word \in {"min", "max"}

\* An operation, from its left operand, which the operator follows, and its right one.
Joined(left, right) ==
  IF right = SyntaxError THEN SyntaxError
  ELSE Read(Binary(Head(left.rest).word, left.expr, right.expr), right.rest)

\* The arguments of a call with one more; a group, up to its closing parenthesis.
WithArgument(args, next) ==
  IF next = SyntaxError THEN SyntaxError ELSE Read(Append(args, next.expr), next.rest)
Grouped(inner) ==
  IF Ahead(inner.rest, "rparen") THEN Read(inner.expr, Tail(inner.rest)) ELSE SyntaxError

RECURSIVE ParseSum(_), Sums(_), ParseTerm(_), Terms(_), ParseFactor(_), ParseArgs(_, _)

\* parseExpr: terms joined by + and -, grouped to the left.
ParseSum(tokens) == Sums(ParseTerm(tokens))
Sums(left) ==
  IF AheadOp(left.rest, {"+", "-"}) THEN Sums(Joined(left, ParseTerm(Tail(left.rest)))) ELSE left

\* parseTerm: factors joined by * and /.
ParseTerm(tokens) == Terms(ParseFactor(tokens))
Terms(left) ==
  IF AheadOp(left.rest, {"*", "/"}) THEN Terms(Joined(left, ParseFactor(Tail(left.rest)))) ELSE left

\* A call's arguments up to its closing parenthesis.
ParseArgs(fn, sofar) ==
  CASE sofar = SyntaxError -> SyntaxError
    [] Ahead(sofar.rest, "comma") ->
         ParseArgs(fn, WithArgument(sofar.expr, ParseSum(Tail(sofar.rest))))
    [] Ahead(sofar.rest, "rparen") -> Read(Call(fn, sofar.expr), Tail(sofar.rest))
    [] OTHER -> SyntaxError

\* parseFactor: a group, money, a number, a call or a variable.
ParseFactor(tokens) ==
  CASE Ahead(tokens, "lparen") -> Grouped(ParseSum(Tail(tokens)))
    [] Ahead(tokens, "number") ->
         IF AheadCurrency(Tail(tokens))
         THEN Read(MoneyLit(Head(tokens).word, tokens[2].word), Tail(Tail(tokens)))
         ELSE Read(NumberLit(Head(tokens).word), Tail(tokens))
    [] AheadFunction(tokens) ->
         IF ~Ahead(Tail(tokens), "lparen") THEN SyntaxError
         ELSE ParseArgs(Head(tokens).word, WithArgument(<<>>, ParseSum(Tail(Tail(tokens)))))
    [] Ahead(tokens, "ident") -> Read(Var(Head(tokens).word), Tail(tokens))
    [] OTHER -> SyntaxError

-----------------------------------------------------------------------------
(* An author writes a formula, and formats the file as often as he likes.  *)

VARIABLES
  formula,   \* what the author wrote
  text,      \* the file, or <<>> before it is first formatted
  reread     \* what the parser last made of the file

formulaVars == <<formula, text, reread>>

\* A formatter cannot lay out what it cannot parse.
Format ==
  /\ reread # SyntaxError
  /\ text' = Canonical(reread.expr)
  /\ UNCHANGED <<formula, reread>>

Parse ==
  /\ text # <<>>
  /\ reread' = ParseSum(text)
  /\ UNCHANGED <<formula, text>>

FormulaInit == formula \in Formulas /\ text = <<>> /\ reread = Read(formula, <<>>)

FormulaNext == Format \/ Parse

\* Formatting never changes meaning: what is read back is the tree that was written, with
\* nothing left over, and formatting it again changes no token.
FormatKeepsMeaning ==
  /\ reread = Read(formula, <<>>)
  /\ text # <<>> => text = Canonical(formula)

-----------------------------------------------------------------------------
(* The file.                                                               *)

CONSTANTS
  Pages,      \* the files an author may start from
  Notes,      \* the comments he may add
  Width,      \* words of a tender that fits on one line
  MaxEdits    \* bound: edits of one file

VARIABLES
  page,    \* the file
  edits    \* how often it was edited

grammarVars == <<page, edits>>

BlankLine == [words |-> <<>>, note |-> None]
NoteLine(c) == [words |-> <<>>, note |-> c.text]

-----------------------------------------------------------------------------
(* tokenize().                                                             *)

\* The words of the file in order, each with its line.
Tokens(file) ==
  FlattenSeq([l \in DOMAIN file |->
    [i \in DOMAIN file[l].words |->
       [type |-> file[l].words[i].type, word |-> file[l].words[i].word, line |-> l]]])

\* The comments it collects on request.
Comments(file) ==
  LET noted == SelectSeq([l \in DOMAIN file |-> l], LAMBDA l : file[l].note # None)
  IN [i \in DOMAIN noted |-> [text |-> file[noted[i]].note, line |-> noted[i]]]

-----------------------------------------------------------------------------
(* The parser: what each block is named by, which keys it takes and what   *)
(* value follows each, which blocks open in it.                            *)

NamedBy ==
  [lifecycle |-> "ident", profile |-> "ident", policy |-> "ident", composition |-> "ident",
   auction |-> "string", mechanism |-> "ident", tender |-> "string", state |-> "ident", leg |-> "ident"]

ProfileFields == [label |-> "string", description |-> "string", states |-> "idents", value_forms |-> "idents"]
PolicyFields ==
  [label |-> "string", description |-> "string", applies_to |-> "ident", forbid_states |-> "idents",
   concession_floor |-> "expr", committed_price |-> "expr", tax_rates |-> "rates", assert |-> "idents"]
AuctionFields == [subject |-> "string", seller |-> "string", opens_at |-> "string", closes_at |-> "string"]
MechanismFields ==
  [reserve_price |-> "money", increment |-> "money", start_price |-> "money", decrement |-> "money",
   interval_seconds |-> "number", reveal_at |-> "string", criterion |-> "criterion",
   minimum_threshold |-> "number", committee |-> "strings", publication_required |-> "bool"]
TenderFields == [offer |-> "money", closes_at |-> "string", superseded_by |-> "string"]
AuctionStateFields == [reason |-> "ident", winner |-> "string", winning_price |-> "money"]

FieldsOf ==
  [profile |-> ProfileFields, policy |-> PolicyFields, auction |-> AuctionFields,
   mechanism |-> MechanismFields, tender |-> TenderFields, state |-> AuctionStateFields,
   composition |-> [label |-> "string", description |-> "string"], leg |-> [amount |-> "expr"]]

\* A table of field keys is a plain object, and `in` finds what every object inherits: such
\* a key is taken without a value.
Inherited == {"constructor", "toString"}
TakenBare(kind) == IF kind \in {"auction", "mechanism", "tender", "state"} THEN Inherited ELSE {}

Opens == [kind \in DOMAIN NamedBy |->
            CASE kind = "auction" -> {"mechanism", "tender", "state"}
              [] kind = "composition" -> {"leg"}
              [] OTHER -> {}]

Parsed(node, rest) == [ok |-> TRUE, node |-> node, rest |-> rest]
Unreadable == [ok |-> FALSE]

AheadWord(tokens, words) == Ahead(tokens, "ident") /\ Head(tokens).word \in words

\* One word of each of these types, in this order.
AheadAll(tokens, types) ==
  Len(tokens) >= Len(types) /\ \A i \in DOMAIN types : tokens[i].type = types[i]

\* identList, stringList, numberList: how many words of the list lie ahead.
ListLength(tokens, type) ==
  LET good == {n \in 1..Len(tokens) :
                 n % 2 = 1 /\ \A i \in 1..n : tokens[i].type = IF i % 2 = 1 THEN type ELSE "comma"}
  IN IF good = {} THEN 0 ELSE CHOOSE n \in good : \A m \in good : m <= n

\* A value that ends after n words; a comma after a list asks for one more.
Taken(tokens, n) ==
  IF n = 0 \/ Ahead(SubSeq(tokens, n + 1, Len(tokens)), "comma") THEN Unreadable
  ELSE Parsed([i \in 1..n |-> [type |-> tokens[i].type, word |-> tokens[i].word]],
              SubSeq(tokens, n + 1, Len(tokens)))

Exactly(tokens, types) == IF AheadAll(tokens, types) THEN types ELSE <<>>

\* The value that follows a key: its words, or for a computed value its expression.
ParseValue(shape, tokens) ==
  CASE shape \in {"string", "ident", "number"} -> Taken(tokens, Len(Exactly(tokens, <<shape>>)))
    [] shape = "idents"  -> Taken(tokens, ListLength(tokens, "ident"))
    [] shape = "strings" -> Taken(tokens, ListLength(tokens, "string"))
    [] shape = "money"   -> Taken(tokens, Len(Exactly(tokens, <<"number", "ident">>)))
    [] shape = "criterion" -> Taken(tokens, Len(Exactly(tokens, <<"string", "number", "number">>)))
    [] shape = "bool"    -> IF AheadWord(tokens, {"true", "false"}) THEN Taken(tokens, 1) ELSE Unreadable
    [] shape = "rates"   ->
         LET n == IF Ahead(tokens, "string") THEN ListLength(Tail(tokens), "number") ELSE 0
         IN Taken(tokens, IF n = 0 THEN 0 ELSE n + 1)
    [] OTHER ->
         LET value == ParseSum(tokens)
         IN IF value = SyntaxError THEN Unreadable ELSE Parsed(value.expr, value.rest)

FieldRead(key, value, line) == [kind |-> "field", key |-> key, value |-> value, line |-> line]

WithKey(key, value) ==
  IF value.ok THEN Parsed(FieldRead(key.word, value.node, key.line), value.rest) ELSE Unreadable

ParseField(kind, tokens) ==
  CASE AheadWord(tokens, TakenBare(kind)) ->
         Parsed(FieldRead(Head(tokens).word, None, Head(tokens).line), Tail(tokens))
    [] AheadWord(tokens, DOMAIN FieldsOf[kind]) ->
         WithKey(Head(tokens), ParseValue(FieldsOf[kind][Head(tokens).word], Tail(tokens)))
    [] OTHER -> Unreadable

\* "state" IDENT, or IDENT "->" identList.
ParseLifecycleItem(tokens) ==
  LET line == Head(tokens).line
      targets == Taken(SubSeq(tokens, 3, Len(tokens)), ListLength(SubSeq(tokens, 3, Len(tokens)), "ident"))
  IN IF AheadWord(tokens, {"state"})
     THEN IF ~Ahead(Tail(tokens), "ident") THEN Unreadable
          ELSE Parsed([kind |-> "state", key |-> tokens[2].word, line |-> line], SubSeq(tokens, 3, Len(tokens)))
     ELSE IF ~AheadAll(tokens, <<"ident", "arrow">>) \/ ~targets.ok THEN Unreadable
     ELSE Parsed([kind |-> "transition", key |-> Head(tokens).word, value |-> targets.node, line |-> line],
                 targets.rest)

\* A second mechanism or state of an auction, a second amount of a leg.
Repeats(block, item) ==
  \E i \in DOMAIN block.items :
    \/ block.kind = "auction" /\ item.kind \in {"mechanism", "state"} /\ block.items[i].kind = item.kind
    \/ block.kind = "leg"

\* A block with one more item, and what follows it.
WithItem(block, item) ==
  IF ~item.ok THEN Unreadable
  ELSE IF Repeats(block, item.node) THEN Unreadable
  ELSE Parsed([block EXCEPT !.items = Append(@, item.node)], item.rest)

\* A declaration or a part of one, before its items are read.
OpenedBlock(kind, name, line) == [kind |-> kind, name |-> name, items |-> <<>>, line |-> line, end |-> None]

RECURSIVE ParseBlock(_), ParseItem(_, _), ParseItems(_)

\* KEYWORD NAME [ "{" item* "}" ]; a mechanism and an auction's state may go without braces.
ParseBlock(tokens) ==
  LET kind == Head(tokens).word
      rest == SubSeq(tokens, 3, Len(tokens))
      block == OpenedBlock(kind, tokens[2].word, Head(tokens).line)
  IN CASE ~Ahead(Tail(tokens), NamedBy[kind]) -> Unreadable
       [] Ahead(Tail(tokens), NamedBy[kind]) /\ Ahead(rest, "lbrace") -> ParseItems(Parsed(block, Tail(rest)))
       [] OTHER -> IF kind \in {"mechanism", "state"} THEN Parsed(block, rest) ELSE Unreadable

ParseItem(kind, tokens) ==
  CASE kind = "lifecycle"             -> ParseLifecycleItem(tokens)
    [] AheadWord(tokens, Opens[kind]) -> ParseBlock(tokens)
    [] OTHER                          -> ParseField(kind, tokens)

\* Items up to the closing brace.
ParseItems(sofar) ==
  CASE ~sofar.ok -> Unreadable
    [] sofar.ok /\ Ahead(sofar.rest, "rbrace") ->
         Parsed([sofar.node EXCEPT !.end = Head(sofar.rest).line], Tail(sofar.rest))
    [] OTHER -> IF sofar.rest = <<>> THEN Unreadable
                ELSE ParseItems(WithItem(sofar.node, ParseItem(sofar.node.kind, sofar.rest)))

WithDeclaration(declarations, block) ==
  IF block.ok THEN Parsed(Append(declarations, block.node), block.rest) ELSE Unreadable

RECURSIVE ParseDeclarations(_)
ParseDeclarations(sofar) ==
  IF ~sofar.ok \/ sofar.rest = <<>> THEN sofar
  ELSE IF AheadWord(sofar.rest, {"lifecycle", "profile", "auction", "policy", "composition"})
  THEN ParseDeclarations(WithDeclaration(sofar.node, ParseBlock(sofar.rest)))
  ELSE Unreadable

ParseFile(file) == ParseDeclarations(Parsed(<<>>, Tokens(file)))

-----------------------------------------------------------------------------
(* The printer: the lines written, and the comments left to write.          *)

\* Slip: a comment on the very line counts as one before it.
NotesBeforeOrOn(p, line) == Len(SelectSeq(p.left, LAMBDA c : c.line <= line))

\* Comments.leading(line): how many.
NotesBefore(p, line) == Len(SelectSeq(p.left, LAMBDA c : c.line < line))

WithNotes(p, n) ==
  [lines |-> p.lines \o [i \in 1..n |-> NoteLine(p.left[i])], left |-> SubSeq(p.left, n + 1, Len(p.left))]

\* The words on a line of their own, with the comment that stood on that line.
WithWords(p, words, line) ==
  LET noted == p.left # <<>> /\ p.left[1].line = line
  IN [lines |-> Append(p.lines, [words |-> words, note |-> IF noted THEN p.left[1].text ELSE None]),
      left |-> IF noted THEN Tail(p.left) ELSE p.left]

\* blank(): one at most.
WithBlank(p) ==
  IF p.lines = <<>> \/ p.lines[Len(p.lines)] = BlankLine THEN p ELSE [p EXCEPT !.lines = Append(@, BlankLine)]

\* line(): comments that an empty line set apart stay apart.
PrintLine(p, words, line) ==
  LET n == NotesBefore(p, line)
      apart == n > 0 /\ p.left[n].line < line - 1
      led == WithNotes(p, n)
  IN WithWords(IF apart THEN [led EXCEPT !.lines = Append(@, BlankLine)] ELSE led, words, line)

Ident(w) == <<Token("ident", w)>>
LBrace == <<Token("lbrace", "{")>>
RBrace == <<Token("rbrace", "}")>>

PrintClose(p, end) == WithWords(WithNotes(p, NotesBefore(p, end)), RBrace, end)

ValueWords(kind, f) == IF FieldsOf[kind][f.key] = "expr" THEN Canonical(f.value) ELSE f.value
FieldWords(kind, f) == Ident(f.key) \o ValueWords(kind, f)

ItemWords(kind, item) ==
  CASE item.kind = "state"      -> Ident("state") \o Ident(item.key)
    [] item.kind = "transition" -> Ident(item.key) \o <<Token("arrow", "->")>> \o item.value
    [] OTHER                    -> FieldWords(kind, item)

HeadWords(b) == Ident(b.kind) \o <<Token(NamedBy[b.kind], b.name)>>

\* peekBetween: a comment inside a block, not on its first or last line.
NotesWithin(p, b) == \E i \in DOMAIN p.left : b.line < p.left[i].line /\ p.left[i].line < b.end

InlineWords(b) ==
  HeadWords(b) \o LBrace \o FlattenSeq([i \in DOMAIN b.items |-> FieldWords(b.kind, b.items[i])]) \o RBrace

\* A leg, and a tender that fits, goes on one line unless it has comments inside.
Inline(p, b) ==
  \/ b.kind = "leg" /\ ~NotesWithin(p, b)
  \/ b.kind = "tender" /\ ~NotesWithin(p, b) /\ Len(InlineWords(b)) <= Width

\* Where an empty line separates groups: states from transitions if they were grouped, the
\* kinds of an auction's and a composition's items, a policy's labels from its rules.
Separates(b, i) ==
  LET before == b.items[i - 1]
      item == b.items[i]
      grouped == \A j \in 2..Len(b.items) :
                   b.items[j - 1].kind = "transition" => b.items[j].kind = "transition"
      label(f) == f.key \in {"label", "description"}
  IN /\ i > 1
     /\ CASE b.kind = "lifecycle" -> grouped /\ before.kind = "state" /\ item.kind = "transition"
          [] b.kind \in {"auction", "composition"} -> before.kind # item.kind
          [] b.kind = "policy" -> label(before) /\ ~label(item)
          [] OTHER -> FALSE

\* A binary expression stands at its operator, which the tokens of an expression do not
\* keep: the amount of a leg stands at its key instead.
RECURSIVE PrintBlock(_, _)
PrintBlock(p, b) ==
  LET item(q, i) ==
        LET r == IF Separates(b, i) THEN WithBlank(q) ELSE q
        IN IF b.kind # "lifecycle" /\ b.items[i].kind \in Opens[b.kind] THEN PrintBlock(r, b.items[i])
           ELSE PrintLine(r, ItemWords(b.kind, b.items[i]), b.items[i].line)
  IN CASE Inline(p, b)  -> PrintLine(p, InlineWords(b), b.line)
       [] b.end = None  -> PrintLine(p, HeadWords(b), b.line)
       [] OTHER ->
            PrintClose(FoldLeft(item, PrintLine(p, HeadWords(b) \o LBrace, b.line),
                                [i \in DOMAIN b.items |-> i]), b.end)

PrintDocument(declarations, comments) ==
  LET start == [lines |-> <<>>, left |-> comments]
      printed == FoldLeft(LAMBDA p, b : PrintBlock(WithBlank(p), b), start, declarations)
  IN IF printed.left = <<>> THEN printed.lines
     ELSE WithNotes(WithBlank(printed), Len(printed.left)).lines

\* A field without a value makes the printer throw.
RECURSIVE Printable(_)
Printable(b) ==
  \A i \in DOMAIN b.items :
    /\ b.items[i].kind = "field" => b.items[i].value # None
    /\ b.kind # "lifecycle" /\ b.items[i].kind \in Opens[b.kind] => Printable(b.items[i])

FormatFile(file) == PrintDocument(ParseFile(file).node, Comments(file))
Writable(read) == read.ok /\ \A i \in DOMAIN read.node : Printable(read.node[i])
Formattable(file) == Writable(ParseFile(file))

-----------------------------------------------------------------------------
(* The author breaks lines and adds comments and empty lines; the formatter *)
(* runs between, on a file that parses.                                     *)

FormatPage == Formattable(page) /\ page' = FormatFile(page) /\ UNCHANGED edits

Edited(file) == edits < MaxEdits /\ edits' = edits + 1 /\ page' = file

EditPage ==
  \E l \in DOMAIN page :
    LET before == SubSeq(page, 1, l - 1)
        after == SubSeq(page, l + 1, Len(page))
        words == page[l].words
    IN \/ \E n \in 1..(Len(words) - 1) :
            Edited(before \o <<[words |-> SubSeq(words, 1, n), note |-> None],
                               [page[l] EXCEPT !.words = SubSeq(words, n + 1, Len(words))]>> \o after)
       \/ \E c \in Notes : page[l].note = None /\ Edited(before \o <<[page[l] EXCEPT !.note = c]>> \o after)
       \/ Edited(before \o <<BlankLine, page[l]>> \o after)

GrammarInit == page \in Pages /\ edits = 0

GrammarNext == FormatPage \/ EditPage

-----------------------------------------------------------------------------
(* Properties.                                                             *)

\* A document, positions aside.
RECURSIVE Meaning(_)
Meaning(b) ==
  IF "items" \notin DOMAIN b THEN [x \in DOMAIN b \ {"line"} |-> b[x]]
  ELSE [kind |-> b.kind, name |-> b.name, braces |-> b.end # None,
        items |-> [i \in DOMAIN b.items |-> Meaning(b.items[i])]]

MeaningOf(read) == [i \in DOMAIN read.node |-> Meaning(read.node[i])]
NotesOf(file) == [i \in DOMAIN Comments(file) |-> Comments(file)[i].text]

\* The line each declaration opens on and the comment there, unless a block ended there too.
OpeningNotes(file, read) ==
  LET line(i) == file[read.node[i].line]
  IN [i \in DOMAIN read.node |->
        IF Head(line(i).words) = Ident(read.node[i].kind)[1] THEN line(i).note ELSE None]

\* One note or none, kept where there was one.
NotesKept(noted, afterwards) == \A i \in DOMAIN noted : noted[i] # None => afterwards[i] = noted[i]

\* One file says what another says: read and again are what the parser makes of them.
Keeps(file, read, formatted, again) ==
  /\ again.ok /\ MeaningOf(again) = MeaningOf(read)
  /\ NotesOf(formatted) = NotesOf(file)
  /\ NotesKept(OpeningNotes(file, read), OpeningNotes(formatted, again))
  /\ PrintDocument(again.node, Comments(formatted)) = formatted

\* Formatting a file, whatever its layout, keeps the document and every comment, once and
\* in order; the comment on a declaration's first line stays there; and formatting again
\* changes nothing.
FilesKeep ==
  Formattable(page) =>
    LET formatted == FormatFile(page) IN Keeps(page, ParseFile(page), formatted, ParseFile(formatted))
=============================================================================
