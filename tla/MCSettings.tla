-------------------------------- MODULE MCSettings -----------------------------
EXTENDS Settings
MCUpstreamAsks == {[china |-> <<"ip">>, trust |-> <<"dot">>],
  [china |-> <<"ip", "blank">>, trust |-> <<"blank", "ip">>], [china |-> <<"blank">>, trust |-> <<"ip">>], [china |-> <<"ip">>, trust |-> <<"dot", "name">>]}
MCEnvUpstreams == [china |-> <<"ip">>, trust |-> <<"ip", "dot">>]
=============================================================================
