---------------------------- MODULE MCLlmStream ----------------------------
EXTENDS LlmStream
Ev(k, t, u) == [kind |-> k, text |-> t, usage |-> u]
MCDefault == {<<Ev("chunk", <<"a">>, <<>>), Ev("chunk", <<"b">>, <<1, 2>>), Ev("done", <<>>, <<>>)>>,
              <<Ev("bad", <<>>, <<>>), Ev("chunk", <<"a">>, <<>>), Ev("done", <<>>, <<>>)>>,
              <<Ev("chunk", <<"a">>, <<1, 1>>), Ev("garbled", <<>>, <<>>), Ev("chunk", <<"b">>, <<1, 2>>)>>}
MCAnthropic ==
    {<<Ev("message_start", <<>>, <<3, 1>>), Ev("content_block_delta", <<"a">>, <<>>),
       Ev("ping", <<>>, <<>>), Ev("content_block_delta", <<"b">>, <<>>),
       Ev("message_delta", <<>>, <<2>>), Ev("message_stop", <<>>, <<>>)>>,
     <<Ev("bad", <<>>, <<>>), Ev("content_block_delta", <<"a">>, <<>>),
       Ev("message_delta", <<>>, <<2>>), Ev("done", <<>>, <<>>)>>,
     <<Ev("content_block_delta", <<"a">>, <<>>), Ev("garbled", <<>>, <<>>)>>}
StreamSpec == StreamInit /\ [][StreamNext]_streamVars
=============================================================================
