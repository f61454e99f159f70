--------------------------- MODULE MCGuardedChat ----------------------------
(* An instance of GuardedChat for TLC, over an alphabet of two letters.  The *)
(* patterns nest (1 in 112), overlap (112 and 21) and touch (1 and 1).       *)
EXTENDS GuardedChat, TLC

ThreeWords == << <<1, 1, 2>>, <<1>>, <<2, 1>> >>
LastIsCustom == {3}

Texts(n) == UNION {[1 .. k -> {1, 2}] : k \in 0 .. n}

Policy(enabled, scope, allow_list, first, second, third) ==
    [enabled |-> enabled, scope |-> scope, allow_list |-> allow_list,
     action |-> <<first, second, third>>]

SomePromptPolicies ==
    {Policy(TRUE, scope, {}, first, second, "disabled") :
        scope \in {"all_messages", "user_messages_only"},
        first \in {"flag", "redact"}, second \in {"flag", "redact", "block"}}
    \cup {Policy(FALSE, "all_messages", {}, "block", "block", "disabled")}

SomeAnswerPolicies ==
    {Policy(TRUE, "all_messages", {}, first, second, third) :
        first \in {"flag", "redact"}, second \in {"flag", "redact"},
        third \in {"flag", "redact", "block"}}
    \cup {Policy(FALSE, "all_messages", {}, "block", "redact", "block"),
          Policy(TRUE, "all_messages", {<<2, 2, 1>>}, "redact", "redact", "block")}

Message(role, parts) == [role |-> role, parts |-> parts, calls |-> NoCalls]

SomePrompts ==
    {<<Message("user", <<text>>)>> : text \in Texts(4)}
    \cup {<<Message(role, <<text>>), Message("user", <<other, <<1>>>>)>> :
             role \in {"system", "user"}, text \in Texts(3), other \in Texts(2)}

Call(arguments) == [name |-> "f", arguments |-> arguments]
Choice(parts, calls) == [role |-> "assistant", parts |-> parts, calls |-> calls]

SomeAnswers ==
    {<<Choice(<<text>>, NoCalls)>> : text \in Texts(4)}
    \cup {<<Choice(parts, <<Call(arguments)>>)>> :
             parts \in {<<>>} \cup {<<text, other>> : text \in Texts(3), other \in Texts(1)},
             arguments \in Texts(2)}
    \cup {<<Choice(<<text>>, NoCalls), Choice(<<other>>, NoCalls)>> : text \in Texts(3), other \in Texts(2)}

Fragment(index, name, arguments) == [index |-> index, name |-> name, arguments |-> arguments]

SomeChunks ==
    {ErrorFrame}
    \cup {Chunk(text, <<>>) : text \in {<<1>>, <<1, 2>>, <<2, 1>>}}
    \cup {[Chunk(<<2>>, <<>>) EXCEPT !.aside = <<1>>]}
    \cup {Chunk(<<>>, <<Fragment(1, NoName, <<1>>)>>),
          Chunk(<<>>, <<Fragment(1, "f", <<2>>)>>),
          Chunk(<<>>, <<Fragment(2, NoName, <<1>>), Fragment(NoIndex, "h", <<2, 1>>)>>),
          Chunk(<<>>, <<Fragment(1, NoName, <<1>>), Fragment(2, "g", <<>>)>>)}

=============================================================================
