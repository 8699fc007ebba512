-------------------------- MODULE ConsoleTemplates --------------------------
(***************************************************************************)
(* A template of the console in use: Handlebars.compile(template) returns  *)
(* a function that compiles on its first call, keeps the result, and       *)
(* renders with it whatever data the server answers (module-list.js,       *)
(* server-list.js, navbar.js, bs-dialog.js).  Rendered is what a template  *)
(* means, read off its tree; the compiled functions must agree with it.    *)
(***************************************************************************)
EXTENDS Handlebars

CONSTANTS Templates,  \* syntax trees: sequences of statements
          Inputs      \* the objects rendered with them

VARIABLES template, compiled, data, output
vars == <<template, compiled, data, output>>

NotCompiled == <<>>

Init ==
  /\ template \in Templates
  /\ compiled = NotCompiled
  /\ data = Undefined
  /\ output = <<>>

(* Compiled on first use and cached after that point.                       *)
Compiled == IF compiled = NotCompiled THEN CompileTemplate(template) ELSE compiled

Render(context) ==
  \E fs \in {Compiled} :
    /\ compiled' = fs
    /\ data' = context
    /\ output' = Run(fs, 0, 0 :> context)
    /\ UNCHANGED template

Next == \E context \in Inputs : Render(context)
Spec == Init /\ [][Next]_vars

-----------------------------------------------------------------------------
(* What a template means.  contexts: the current one first, then those      *)
(* outside it; every block adds one, also one that renders where it stands. *)

Value(id, contexts) ==
  LET from == IF id.depth < Len(contexts) THEN contexts[id.depth + 1] ELSE Undefined
      at[i \in 0..Len(id.parts)] == IF i = 0 THEN from ELSE Field(at[i - 1], id.parts[i])
  IN at[Len(id.parts)]

RECURSIVE Rendered(_, _)

(* One branch of a block, once for each of the given contexts.              *)
Branch(branch, inside, contexts) ==
  LET text[i \in 0..Len(inside)] ==
        IF i = 0 \/ branch = <<>> THEN <<>>
        ELSE text[i - 1] \o Rendered(branch[1], <<inside[i]>> \o contexts)
  IN text[Len(inside)]

RenderedBlock(b, contexts) ==
  LET this == contexts[1]
      name == IF b.sexpr.params = <<>> THEN "" ELSE b.sexpr.id.parts[1]
      v == Value(IF name = "" THEN b.sexpr.id ELSE b.sexpr.params[1], contexts)
      Either(test, inside) == IF test THEN Branch(b.program, inside, contexts)
                              ELSE Branch(b.inverse, <<this>>, contexts)
  IN CASE name \in Choosers -> Either(Chooses(name, v), <<this>>)
       [] name \in Namers -> <<Piece(Names(name, v), FALSE)>>
       [] name = "with" -> IF IsEmpty(v) THEN <<>> ELSE Branch(b.program, <<v>>, contexts)
       [] v.k = "array" -> Either(v.items # <<>>, v.items)
       [] name = "each" -> Either(FALSE, <<>>)
       [] OTHER -> Either(v \notin {Bool(FALSE), Undefined}, <<IF v = Bool(TRUE) THEN this ELSE v>>)

RenderedNode(node, contexts) ==
  CASE node.type = "content" -> <<Content(node.string)>>
    [] node.type = "mustache" ->
         LET v == Value(node.sexpr.id, contexts) IN
         IF Falsy(v) /\ v # Num(0) THEN <<>> ELSE <<Piece(v, node.escaped)>>
    [] node.type = "block" -> RenderedBlock(node, contexts)

Rendered(statements, contexts) ==
  LET text[i \in 0..Len(statements)] ==
        IF i = 0 THEN <<>> ELSE text[i - 1] \o RenderedNode(statements[i], contexts)
  IN text[Len(statements)]

-----------------------------------------------------------------------------
(* Properties.                                                              *)

(* What the compiled functions append to the buffer is what the template    *)
(* means: nested blocks, shared programs and the contexts passed from one   *)
(* function to the next never show a value of another context or branch     *)
(* (handlebars-v1.3.0.js, compile and JavaScriptCompiler).                  *)
CompiledRenders == compiled # NotCompiled => output = Rendered(template, <<data>>)

Children(f) == {f.children[i] : i \in DOMAIN f.children}

(* A program is handed the outer contexts by position, by the caller's list *)
(* of depths: the list is the callee's own even where the program is shared *)
(* with another block, and the caller has each context it must pass on      *)
(* (compileProgram, programExpression, createFunctionContext).              *)
DepthsBound ==
  \A i \in DOMAIN compiled : \A child \in Children(compiled[i]) :
    /\ child.index \in DOMAIN compiled
    /\ child.depths = compiled[child.index].depths
    /\ \A d \in child.depths : d = 1 \/ d - 1 \in compiled[i].depths

(* Every function ends with nothing left on the stack: the exception        *)
(* "Compile completed with content left on stack" is never thrown.          *)
StackBalanced ==
  \A i \in DOMAIN compiled :
    Final(compiled, i, [d \in compiled[i].depths \cup {0} |-> data]).stack = <<>>
=============================================================================
