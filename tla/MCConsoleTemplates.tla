------------------------- MODULE MCConsoleTemplates -------------------------
(* The shapes of the console's own templates, and every nesting of three    *)
(* blocks around a reference to one of four contexts: alone, with an else,  *)
(* and two next to each other that differ only in the innermost program.    *)
EXTENDS ConsoleTemplates

Id(name) == IdNode(0, <<name>>)
Out3(depth, name) == MustacheNode(SexprNode(IdNode(depth, IF name = "" THEN <<>> ELSE <<name>>), <<>>), TRUE)
Show(name) == Out3(0, name)
BlockOn(name, id, program, inverse) == BlockNode(SexprNode(Id(name), <<id>>), <<program>>, inverse)
Plain(id, program, inverse) == BlockNode(SexprNode(id, <<>>), <<program>>, inverse)
IfElse(name, id, yes, no) == BlockOn(name, id, <<ContentNode(yes)>>, <<<<ContentNode(no)>>>>)

(* server-list.htpl, module-list.htpl, navbar.htpl, bs-dialog.htpl,         *)
(* virtual-addr-setting.htpl.                                               *)
ServerList ==
  <<BlockOn("if", Id("list"),
      <<BlockOn("each", Id("list"),
          <<Show("mac_addr"), IfElse("ifEnableIpv4", Id("status"), "on", "off"),
            IfElse("ifServerOnline", Id("status"), "up", "down"),
            BlockOn("ifServerChecking", Id("status"), <<ContentNode("checking")>>, <<>>),
            BlockOn("ifServerDeleted", Id("status"), <<ContentNode("deleted")>>, <<>>)>>, <<>>)>>,
      <<<<ContentNode("none")>>>>)>>
ModuleList ==
  <<BlockOn("if", Id("list"),
      <<BlockOn("each", Id("list"),
          <<IfElse("if", Id("flag"), "primary", "danger"),
            BlockOn("if", Id("flag"), <<>>, <<<<ContentNode("missing")>>>>),
            BlockOn("roleName", Id("role"), <<>>, <<>>),
            BlockOn("ifRouter", Id("role"), <<IfElse("if", Id("flag"), "active", "standby")>>, <<>>),
            IfElse("ifEnableIpv6", IdNode(0, <<"sub", "status">>), "on", "off"),
            BlockOn("raName", Id("role"), <<>>, <<>>)>>, <<>>)>>,
      <<<<ContentNode("none")>>>>)>>
Navbar ==
  <<Show("a"), Plain(Id("list"), <<BlockOn("if", Id("flag"), <<ContentNode("active")>>, <<>>), Show("a")>>, <<>>)>>
BsDialog ==
  <<BlockOn("if", Id("a"), <<ContentNode("id="), Show("a")>>, <<>>),
    MustacheNode(SexprNode(Id("sub"), <<>>), FALSE),
    BlockOn("if", Id("list"),
      <<BlockOn("each", Id("list"),
          <<BlockOn("if", Id("flag"), <<Show("a")>>, <<<<ContentNode("default")>>>>),
            BlockOn("if", Id("a"), <<ContentNode("id="), Show("a")>>, <<>>)>>, <<>>)>>, <<>>)>>
AddrSetting ==
  <<Show("a"), MustacheNode(SexprNode(IdNode(0, <<"sub", "a">>), <<>>), TRUE),
    BlockOn("ifEnableIpv4", IdNode(0, <<"sub", "status">>), <<ContentNode("checked")>>, <<>>)>>
ConsoleOnes == {ServerList, ModuleList, Navbar, BsDialog, AddrSetting}

Leaves == {Out3(d, "a") : d \in 0..3}
Kinds(program, inverse) ==
  {BlockOn("each", Id("list"), program, inverse), BlockOn("if", Id("flag"), program, inverse),
   BlockOn("with", Id("sub"), program, inverse), Plain(Id("list"), program, inverse),
   Plain(IdNode(0, <<"sub", "list">>), program, inverse)}
Nested(S) == UNION {Kinds(<<s>>, <<>>) : s \in S}
One == Nested(Leaves)
Two == Nested(One)
Three == Nested(Two)
Else == UNION {Kinds(<<s>>, <<<<t>>>>) : s \in One, t \in One}
Beside == {<<BlockOn("with", Id("sub"), <<s>>, <<>>), BlockOn("with", Id("sub"), <<t>>, <<>>), s>> :
             s \in One, t \in One}
SomeTemplates == ConsoleOnes \cup {<<b, Show("a")>> : b \in Three} \cup {<<b>> : b \in Else} \cup Beside

Item(n, flag, inner) ==
  Object([a |-> Num(n), mac_addr |-> Num(n), status |-> Num(n), role |-> Num(n % 4), flag |-> Bool(flag),
          list |-> Array(inner), sub |-> Object([a |-> Text("s"), status |-> Num(n), flag |-> Bool(~flag),
          list |-> Array(<<Object([a |-> Num(n + 1)])>>)])])
SomeInputs ==
  {Item(0, TRUE, <<Item(131, FALSE, <<Item(18, TRUE, <<>>)>>), Item(1, TRUE, <<>>)>>),
   Item(7, FALSE, <<>>),
   Item(2, TRUE, <<Item(4, TRUE, <<Item(5, TRUE, <<Item(6, TRUE, <<>>)>>)>>)>>),
   Object([a |-> Text(""), flag |-> Bool(TRUE), list |-> Bool(TRUE), sub |-> Array(<<>>)])}
=============================================================================
