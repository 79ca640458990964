---------------------------- MODULE MCMixCommand ----------------------------
(***************************************************************************)
(* Two users, notes of 9, 3 and 4 units, a unit of 5 wei, floats with a    *)
(* significand of 4 bits and values of 6 bits, and scenarios of up to      *)
(* two commands.                                                           *)
(***************************************************************************)
EXTENDS MixCommand

MCGenesis == <<[owner |-> 1, value |-> 9], [owner |-> 1, value |-> 3], [owner |-> 2, value |-> 4]>>

To(u, wei) == [to |-> {u}, value |-> wei]
Mix(user, ins, vin, vout, outs) ==
    [command |-> "mix", user |-> user, account |-> user, hosted |-> FALSE, dry_run |-> FALSE,
     vin |-> vin, vout |-> vout, tx_value |-> 0, ins |-> ins, outs |-> outs]
Nothing == [Mix(1, <<>>, 0, 0, <<>>) EXCEPT !.command = "none"]
Deposit(user, wei, tx_value, outs) ==
    [Mix(user, <<>>, wei, 0, outs) EXCEPT !.command = "deposit", !.tx_value = tx_value]
Hosted(a) == [a EXCEPT !.hosted = TRUE]
From(a, account) == [a EXCEPT !.account = account]

Send9 == Mix(1, <<<<0, 1>>>>, 0, 0, <<To(2, 25), To(1, 20)>>)
Send3 == Mix(1, <<<<0, 2>>>>, 0, 5, <<To(2, 10)>>)
Send4 == Mix(2, <<<<0, 3>>>>, 5, 0, <<To(1, 15), [to |-> {}, value |-> 10]>>)

\* One command at a time: amounts, limits and errors.
Single ==
    {Send9,
     Mix(1, <<<<0, 1>>, <<0, 2>>>>, 15, 0, <<To(2, 50), To(1, 25)>>),
     Mix(1, <<<<0, 1>>, <<0, 1>>>>, 0, 0, <<To(2, 90)>>),
     Mix(1, <<<<0, 3>>>>, 0, 0, <<To(2, 20)>>),
     Mix(1, <<<<0, 1>>, <<0, 2>>, <<0, 3>>>>, 0, 80, <<>>),
     Mix(1, <<<<0, 1>>>>, 0, 0, <<To(2, 25)>>),
     Mix(1, <<>>, 330, 0, <<To(1, 330)>>),
     Mix(1, <<<<0, 1>>>>, 300, 0, <<To(1, 45), To(2, 300)>>),
     Mix(1, <<>>, 7, 0, <<To(1, 7)>>),
     Mix(1, <<>>, 14, 0, <<To(1, 7), To(2, 7)>>),
     Mix(1, <<>>, 10, 0, <<To(1, 7), To(2, 3)>>),
     Mix(1, <<>>, 3, 0, <<To(1, 3)>>), Mix(1, <<>>, 25, 0, <<To(2, 25)>>),
     Mix(1, <<>>, 180, 0, <<To(1, 85), To(2, 95)>>),
     Mix(2, <<>>, 65, 0, <<To(1, 55), To(2, 10)>>),
     Deposit(1, 10, 0, <<>>), Deposit(1, 10, 10, <<>>), Deposit(1, 10, 5, <<To(2, 10)>>),
     [Send9 EXCEPT !.dry_run = TRUE]}

\* Two at the same time: the same note, the same account, a chain.
Together ==
    {<<Send9, Send4>>,
     <<Send9, From(Mix(1, <<<<0, 1>>>>, 0, 45, <<>>), 2)>>,
     <<Send9, Send3>>,
     <<Hosted(Send9), Hosted(Send3)>>,
     <<Send9, Hosted(Send3)>>,
     <<Send9, Mix(2, <<<<1, 1>>>>, 0, 0, <<To(1, 25)>>)>>,
     <<Deposit(1, 10, 0, <<>>), From(Deposit(1, 15, 0, <<To(2, 15)>>), 2)>>}

MCScenarios ==
    {[args |-> <<a, Nothing>>, useToken |-> t, config |-> {Config}] :
        a \in Single, t \in BOOLEAN} \cup
    {[args |-> p, useToken |-> FALSE, config |-> {Config}] : p \in Together} \cup
    {[args |-> p, useToken |-> FALSE, config |-> f] :
        p \in {<<Send9, Send4>>, <<Send9, Send3>>}, f \in {{}, {Torn}}} \cup
    {[args |-> <<Send9, Mix(2, <<>>, 10, 0, <<To(2, 10)>>)>>, useToken |-> TRUE, config |-> {Config}]}
=============================================================================
