----------------------------- MODULE MCPipeline -----------------------------
EXTENDS Pipeline

\* Scripts that approve all, edit each gate that comes back, edit the selection,
\* reject, and end too early.
MCScripts == {<<"APPROVE", "APPROVE", "EDIT", "APPROVE", "EDIT", "APPROVE">>,
              <<"EDIT", "APPROVE", "APPROVE", "APPROVE">>,
              <<"APPROVE", "APPROVE", "APPROVE", "REJECT">>}
=============================================================================
