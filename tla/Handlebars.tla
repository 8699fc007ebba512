----------------------------- MODULE Handlebars -----------------------------
(***************************************************************************)
(* The template engine of the web console (sea-modules/handlebars) with    *)
(* the console's own helpers (user-modules/handlebars-helper.js): the      *)
(* syntax tree, the compiler from the tree to opcodes, the numbering and   *)
(* sharing of the compiled programs, and what an opcode does when the      *)
(* program runs.                                                           *)
(*                                                                         *)
(* The JavaScript compiler turns the opcodes into source text by running   *)
(* them on a stack of expressions; here they run on a stack of values, as  *)
(* its comments "on stack, before / after" state them.  Left out: the      *)
(* parser, white-space control, hash arguments, partials, @data, string    *)
(* parameters, functions in the data, and comments, which no template of   *)
(* the console has.                                                        *)
(***************************************************************************)
EXTENDS Integers, Sequences, FiniteSets, TLC

(* Values.  An "out" is a string a block has rendered: a list of pieces.    *)
Undefined == [k |-> "undefined"]
Bool(b) == [k |-> "bool", b |-> b]
Num(n) == [k |-> "num", n |-> n]
Text(t) == [k |-> "text", t |-> t]
Array(items) == [k |-> "array", items |-> items]
Object(fields) == [k |-> "object", fields |-> fields]
Out(pieces) == [k |-> "out", pieces |-> pieces]

Falsy(v) == v \in {Undefined, Bool(FALSE), Num(0), Text(""), Out(<<>>)}
IsEmpty(v) == (Falsy(v) /\ v # Num(0)) \/ v = Array(<<>>)

(* value[name]; the generated accesses are guarded, each in its own way.    *)
Field(v, name) == IF v.k = "object" /\ name \in DOMAIN v.fields THEN v.fields[name] ELSE Undefined
NameLookup(context, name) == IF Falsy(context) THEN context ELSE Field(context, name)
Lookup(v, name) == IF v \in {Undefined, Bool(FALSE)} THEN v ELSE Field(v, name)

(* What a value adds to the buffer, as it is and escaped.                   *)
Content(c) == [content |-> c]
Piece(v, escaped) == [value |-> v, escaped |-> escaped]
Append0(v) ==
  IF Falsy(v) /\ v # Num(0) THEN <<>> ELSE IF v.k = "out" THEN v.pieces ELSE <<Piece(v, FALSE)>>
EscapeExpression(v) == IF Falsy(v) /\ v # Num(0) THEN <<>> ELSE <<Piece(v, TRUE)>>

-----------------------------------------------------------------------------
(* The syntax tree.                                                         *)

IdNode(depth, parts) == [depth |-> depth, parts |-> parts]
IsSimple(id) == id.depth = 0 /\ Len(id.parts) = 1

SexprNode(id, params) ==
  [id |-> id, params |-> params, eligibleHelper |-> IsSimple(id), isHelper |-> IsSimple(id) /\ params # <<>>]
ContentNode(s) == [type |-> "content", string |-> s]
MustacheNode(sexpr, escaped) == [type |-> "mustache", sexpr |-> sexpr, escaped |-> escaped]

(* program and inverse: sequences of statements, in a list of at most one.  *)
BlockNode(sexpr, program, inverse) ==
  [type |-> "block", sexpr |-> sexpr, program |-> program, inverse |-> inverse]

-----------------------------------------------------------------------------
(* The helpers.                                                             *)

Bit(v, n) == (v.k = "num" /\ (v.n \div n) % 2 = 1) \/ (v = Bool(TRUE) /\ n = 1)
EnableIpv4 == 1  \* SA_ENABLE_IPV4
EnableIpv6 == 2  \* SA_ENABLE_IPV6
Online == 1      \* SS_ONLINE
Checking == 2    \* SS_CHECKING
Deleted == 128   \* SS_DELETED

IfEnableIpv6(v) == Bit(v, EnableIpv6)
IfEnableIpv4(v) == Bit(v, EnableIpv4)
IfRouter(v) == v \in {Num(1), Bool(TRUE)}
IfServer(v) == v = Num(2)
IfServerOnline(v) == Bit(v, Online)
IfServerChecking(v) == Bit(v, Checking)
IfServerDeleted(v) == Bit(v, Deleted)
If(v) == ~Falsy(v) /\ ~IsEmpty(v)

(* Block helpers that render one of their two blocks where they stand.      *)
Choosers == {"if", "unless", "ifEnableIpv4", "ifEnableIpv6", "ifRouter", "ifServer",
             "ifServerOnline", "ifServerChecking", "ifServerDeleted"}
Chooses(name, v) ==
  CASE name = "if" -> If(v)
    [] name = "unless" -> ~If(v)
    [] name = "ifEnableIpv4" -> IfEnableIpv4(v)
    [] name = "ifEnableIpv6" -> IfEnableIpv6(v)
    [] name = "ifRouter" -> IfRouter(v)
    [] name = "ifServer" -> IfServer(v)
    [] name = "ifServerOnline" -> IfServerOnline(v)
    [] name = "ifServerChecking" -> IfServerChecking(v)
    [] name = "ifServerDeleted" -> IfServerDeleted(v)

(* Helpers that name a number.                                              *)
Namers == {"roleName", "raName"}
RoleName(v) == IF v \in {Num(0), Num(1), Num(2)} THEN Text("role") ELSE Text("unknown role")
RaName(v) == IF v \in {Num(0), Num(1), Num(16), Num(17)} THEN Text("algorithm") ELSE Text("unknown algorithm")
Names(name, v) == IF name = "roleName" THEN RoleName(v) ELSE RaName(v)

KnownHelpers == {"if", "unless", "each", "with"}
Helpers == KnownHelpers \cup Choosers \cup Namers

-----------------------------------------------------------------------------
(* Compiler: opcodes, the child programs, and the depths of the contexts    *)
(* outside the program that it or a child of it refers to.                  *)

Op(op, n, name) == [op |-> op, n |-> n, name |-> name]
Environment == [opcodes |-> <<>>, children |-> <<>>, depths |-> {}]
Opcode(e, op, n, name) == [e EXCEPT !.opcodes = Append(@, Op(op, n, name))]
AddDepth(e, depth) == IF depth = 0 THEN e ELSE [e EXCEPT !.depths = @ \cup {depth}]

NoGuid == -1
PushProgram(e, guid) == Opcode(e, "pushProgram", guid, "")

ID(e, id) ==
  LET context == Opcode(AddDepth(e, id.depth), "getContext", id.depth, "")
      first == IF id.parts = <<>> THEN Opcode(context, "pushContext", 0, "")
               ELSE Opcode(context, "lookupOnContext", 0, id.parts[1])
      path[i \in 0..Len(id.parts)] ==
        IF i < 2 THEN first ELSE Opcode(path[i - 1], "lookup", 0, id.parts[i])
  IN path[Len(id.parts)]

SimpleSexpr(e, sexpr) == Opcode(ID(e, sexpr.id), "resolvePossibleLambda", 0, "")

(* The last parameter first.                                                *)
PushParams(e, params) ==
  LET n == Len(params)
      pushed[i \in 0..n] == IF i = 0 THEN e ELSE ID(pushed[i - 1], params[n + 1 - i])
  IN pushed[n]

SetupFullMustacheParams(e, params, program, inverse) ==
  Opcode(PushProgram(PushProgram(PushParams(e, params), program), inverse), "emptyHash", 0, "")

HelperSexpr(e, sexpr, program, inverse) ==
  LET name == sexpr.id.parts[1] IN
  Opcode(SetupFullMustacheParams(e, sexpr.params, program, inverse),
         IF name \in KnownHelpers THEN "invokeKnownHelper" ELSE "invokeHelper", Len(sexpr.params), name)

(* Mutant: a hash is set up as for a helper, and nobody takes it.           *)
AmbiguousSexprHash(e, sexpr, program, inverse) ==
  Opcode(Opcode(PushProgram(PushProgram(Opcode(e, "getContext", sexpr.id.depth, ""), program), inverse),
                "emptyHash", 0, ""),
         "invokeAmbiguous", 0, sexpr.id.parts[1])

AmbiguousSexpr(e, sexpr, program, inverse) ==
  Opcode(PushProgram(PushProgram(Opcode(e, "getContext", sexpr.id.depth, ""), program), inverse),
         "invokeAmbiguous", 0, sexpr.id.parts[1])

ClassifySexpr(sexpr) ==
  CASE sexpr.isHelper -> "helper"
    [] sexpr.eligibleHelper /\ ~sexpr.isHelper ->
         IF sexpr.id.parts[1] \in KnownHelpers THEN "helper" ELSE "ambiguous"
    [] OTHER -> "simple"

Sexpr(e, sexpr, program, inverse) ==
  CASE ClassifySexpr(sexpr) = "simple" -> SimpleSexpr(e, sexpr)
    [] ClassifySexpr(sexpr) = "helper" -> HelperSexpr(e, sexpr, program, inverse)
    [] ClassifySexpr(sexpr) = "ambiguous" -> AmbiguousSexpr(e, sexpr, program, inverse)

Mustache(e, m) ==
  Opcode(Sexpr(e, m.sexpr, NoGuid, NoGuid), IF m.escaped THEN "appendEscaped" ELSE "append", 0, "")

RECURSIVE Compile(_)

(* Mutant: the contexts a child refers to are its own business.             *)
CompileProgramShallow(e, program) == [e EXCEPT !.children = Append(@, Compile(program))]

(* A child that reaches two contexts out needs one of its parent's.         *)
CompileProgram(e, program) ==
  LET result == Compile(program) IN
  [e EXCEPT !.children = Append(@, result), !.depths = @ \cup {d - 1 : d \in result.depths \ {1}}]

Guid(e) == Len(e.children)

Block(e, b) ==
  LET afterProgram == IF b.program = <<>> THEN e ELSE CompileProgram(e, b.program[1])
      afterInverse == IF b.inverse = <<>> THEN afterProgram ELSE CompileProgram(afterProgram, b.inverse[1])
      program == IF b.program = <<>> THEN NoGuid ELSE Guid(e)
      inverse == IF b.inverse = <<>> THEN NoGuid ELSE Guid(afterProgram)
      type == ClassifySexpr(b.sexpr)
      called == Sexpr(afterInverse, b.sexpr, program, inverse)
      options == Opcode(PushProgram(PushProgram(called, program), inverse), "emptyHash", 0, "")
      valued == IF type = "helper" THEN called
                ELSE Opcode(options, IF type = "simple" THEN "blockValue" ELSE "ambiguousBlockValue", 0, "")
  IN Opcode(valued, "append", 0, "")

Accept(e, node) ==
  CASE node.type = "content" -> Opcode(e, "appendContent", 0, node.string)
    [] node.type = "mustache" -> Mustache(e, node)
    [] node.type = "block" -> Block(e, node)

Compile(program) ==
  LET e[i \in 0..Len(program)] == IF i = 0 THEN Environment ELSE Accept(e[i - 1], program[i])
  IN e[Len(program)]

-----------------------------------------------------------------------------
(* JavaScriptCompiler: children become numbered functions, equal ones the   *)
(* same.  programs: the length of the list of functions, which holds a      *)
(* placeholder for each; environments: what has been compiled, by number;   *)
(* functions: the result, a child being called by its number.               *)

Context == [programs |-> 0, environments |-> <<>>, functions |-> <<>>]

(* Mutant: the opcodes only.                                                *)
SameOpcodes(a, b) == a.opcodes = b.opcodes

RECURSIVE Equals(_, _)
Equals(a, b) ==
  /\ a.opcodes = b.opcodes
  /\ Len(a.children) = Len(b.children)
  /\ \A i \in 1..Len(a.children) : Equals(a.children[i], b.children[i])

MatchExistingProgram(context, child) ==
  {i \in DOMAIN context.environments : Equals(context.environments[i], child)}

Least(S) == CHOOSE i \in S : \A j \in S : i <= j
Larger(i, j) == IF i > j THEN i ELSE j
With(f, i, v) == (i :> v) @@ f

(* A child's number, and the contexts its program expression passes on.     *)
Child(index, e) == [index |-> index, depths |-> e.depths]
Function(e, children) == [opcodes |-> e.opcodes, depths |-> e.depths, children |-> children]

RECURSIVE CompileChildren(_, _)
CompileChildren(context, children) ==
  LET Compiled(at, child) ==
        LET index == at.context.programs + 1
            inner == CompileChildren([at.context EXCEPT !.programs = index], child.children)
            found == MatchExistingProgram(at.context, child)
        IN IF found # {}
           THEN [at EXCEPT !.children = Append(@, Child(Least(found), child))]
           ELSE [children |-> Append(at.children, Child(index, child)),
                 context |-> [programs |-> Larger(inner.context.programs, index + 1),
                              environments |-> With(inner.context.environments, index, child),
                              functions |-> With(inner.context.functions, index,
                                                 Function(child, inner.children))]]
      done[i \in 0..Len(children)] ==
        IF i = 0 THEN [context |-> context, children |-> <<>>] ELSE Compiled(done[i - 1], children[i])
  IN done[Len(children)]

(* Number 0 is the template itself.                                         *)
CompileTemplate(template) ==
  LET e == Compile(template)
      compiled == CompileChildren(Context, e.children)
  IN With(compiled.context.functions, 0, Function(e, compiled.children))

-----------------------------------------------------------------------------
(* Running a function.  depths: the contexts it has, by depth; m: its stack,*)
(* the depth of the last context, the last helper it looked for, its buffer.*)

Machine == [stack |-> <<>>, lastContext |-> 0, lastHelper |-> "", buffer |-> <<>>]
Null == [k |-> "null"]
Hash == [k |-> "hash"]
Closure(index, depths) == [k |-> "program", index |-> index, depths |-> depths]

(* programWithDepth: depth d of the child is depth d - 1 of its parent.  A  *)
(* depth the parent lacks would be an undeclared variable.                  *)
Passed(depths, d) == IF d - 1 \in DOMAIN depths THEN depths[d - 1] ELSE Undefined
ProgramExpression(f, depths, guid) ==
  LET child == f.children[guid + 1] IN
  IF guid = NoGuid THEN Null ELSE Closure(child.index, [d \in child.depths |-> Passed(depths, d)])

Top(stack) == stack[Len(stack)]
Pop(stack, n) == SubSeq(stack, 1, Len(stack) - n)
Push(m, v) == [m EXCEPT !.stack = Append(@, v)]
Replace(m, n, v) == [m EXCEPT !.stack = Append(Pop(@, n), v)]

RECURSIVE Run(_, _, _)
(* options.fn and options.inverse.                                          *)
Call(fs, program, context) ==
  IF program = Null THEN Out(<<>>) ELSE Out(Run(fs, program.index, With(program.depths, 0, context)))

EachItem(fs, program, items) ==
  LET ret[i \in 0..Len(items)] ==
        IF i = 0 THEN <<>> ELSE ret[i - 1] \o Call(fs, program, items[i]).pieces
  IN Out(ret[Len(items)])
(* No template of the console iterates over the fields of an object.        *)
Each(fs, this, v, program, inverse) ==
  IF v.k = "array" /\ v.items # <<>> THEN EachItem(fs, program, v.items) ELSE Call(fs, inverse, this)

BlockHelperMissing(fs, this, v, program, inverse) ==
  CASE v = Bool(TRUE) -> Call(fs, program, this)
    [] v \in {Bool(FALSE), Undefined} -> Call(fs, inverse, this)
    [] v.k = "array" -> Each(fs, this, v, program, inverse)
    [] OTHER -> Call(fs, program, v)

Helper(fs, name, this, v, program, inverse) ==
  CASE name \in Choosers -> Call(fs, IF Chooses(name, v) THEN program ELSE inverse, this)
    [] name \in Namers -> Names(name, v)
    [] name = "each" -> Each(fs, this, v, program, inverse)
    [] name = "with" -> IF IsEmpty(v) THEN Undefined ELSE Call(fs, program, v)

(* setupOptions: the hash, the inverse, the program and the parameters; no  *)
(* helper of the console looks at a second parameter.                       *)
SetupOptions(stack, paramSize) ==
  LET n == Len(stack) IN
  [inverse |-> stack[n - 1], program |-> stack[n - 2],
   param |-> IF paramSize = 0 THEN Undefined ELSE stack[n - 3]]

(* The opcodes.  f is the function that runs, with its contexts depths.     *)
LastContext(m, depths) == IF m.lastContext \in DOMAIN depths THEN depths[m.lastContext] ELSE Undefined

GetContext(m, depth) == [m EXCEPT !.lastContext = depth]
PushContext(m, depths) == Push(m, LastContext(m, depths))
LookupOnContext(m, depths, name) == Push(m, NameLookup(LastContext(m, depths), name))
PushProgramOf(f, m, depths, guid) ==
  Push(m, IF guid = NoGuid THEN Null ELSE ProgramExpression(f, depths, guid))
EmptyHash(m) == Push(m, Hash)

InvokeHelper(fs, m, depths, paramSize, name) ==
  LET o == SetupOptions(m.stack, paramSize) IN
  Replace(m, 3 + paramSize, Helper(fs, name, depths[0], o.param, o.program, o.inverse))

(* A name alone: a helper called with no parameter, or a field.  The        *)
(* console's templates give its own helpers a parameter always.             *)
InvokeAmbiguous(m, depths, name) ==
  [Replace(m, 2, NameLookup(LastContext(m, depths), name)) EXCEPT !.lastHelper = name]

BlockValue(fs, m, depths) ==
  LET o == SetupOptions(m.stack, 0) IN
  Replace(m, 4, BlockHelperMissing(fs, depths[0], m.stack[Len(m.stack) - 3], o.program, o.inverse))
AmbiguousBlockValue(fs, m, depths) ==
  IF m.lastHelper \in Helpers THEN [m EXCEPT !.stack = Pop(@, 3)] ELSE BlockValue(fs, m, depths)

AppendContent(m, string) == [m EXCEPT !.buffer = Append(@, Content(string))]
AppendValue(m) == [m EXCEPT !.stack = Pop(@, 1), !.buffer = @ \o Append0(Top(m.stack))]
AppendEscaped(m) == [m EXCEPT !.stack = Pop(@, 1), !.buffer = @ \o EscapeExpression(Top(m.stack))]

Step(fs, f, depths, m, o) ==
  CASE o.op = "getContext" -> GetContext(m, o.n)
    [] o.op = "pushContext" -> PushContext(m, depths)
    [] o.op = "lookupOnContext" -> LookupOnContext(m, depths, o.name)
    [] o.op = "lookup" -> Replace(m, 1, Lookup(Top(m.stack), o.name))
    [] o.op = "resolvePossibleLambda" -> m
    [] o.op = "pushProgram" -> PushProgramOf(f, m, depths, o.n)
    [] o.op = "emptyHash" -> EmptyHash(m)
    [] o.op \in {"invokeHelper", "invokeKnownHelper"} -> InvokeHelper(fs, m, depths, o.n, o.name)
    [] o.op = "invokeAmbiguous" -> InvokeAmbiguous(m, depths, o.name)
    [] o.op = "blockValue" -> BlockValue(fs, m, depths)
    [] o.op = "ambiguousBlockValue" -> AmbiguousBlockValue(fs, m, depths)
    [] o.op = "appendContent" -> AppendContent(m, o.name)
    [] o.op = "append" -> AppendValue(m)
    [] o.op = "appendEscaped" -> AppendEscaped(m)

Final(fs, index, depths) ==
  LET f == fs[index]
      m[i \in 0..Len(f.opcodes)] == IF i = 0 THEN Machine ELSE Step(fs, f, depths, m[i - 1], f.opcodes[i])
  IN m[Len(f.opcodes)]
Run(fs, index, depths) == Final(fs, index, depths).buffer
=============================================================================
