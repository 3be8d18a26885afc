---------------------------- MODULE MCInlineAsm ----------------------------
(* Bodies of instructions of every shape, in and behind other code.        *)
EXTENDS InlineAsm

MCNames == {1, 2}

Made(op, operands) ==
    [op    |-> op,
     parts |-> [k \in DOMAIN operands |-> [form |-> operands[k][1], value |-> operands[k][2]]]]

MCInstructions ==
    {Made(0, <<>>),                                           \* nop
     Made(21, <<<<"byte", 250>>>>),                           \* iload
     Made(153, <<<<"to2", 1>>>>),                             \* ifeq
     Made(167, <<<<"to2", 2>>>>), Made(167, <<<<"by2", 65536>>>>),
     Made(200, <<<<"to4", 2>>>>),                             \* goto_w
     Made(170, <<<<"align", 0>>, <<"to4", 1>>, <<"long", 5>>, <<"long", 6>>,
                 <<"to4", 2>>, <<"to4", 1>>>>),               \* tableswitch
     Made(171, <<<<"align", 0>>, <<"to4", 2>>, <<"long", 1>>,
                 <<"long", 7>>, <<"to4", 1>>>>),              \* lookupswitch
     Made(185, <<<<"pool", 251>>, <<"byte", 1>>, <<"byte", 0>>>>)}
=============================================================================
