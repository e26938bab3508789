------------------------------ MODULE MCPipeline ------------------------------
(***************************************************************************)
(* Small instances of Pipeline for TLC.                                    *)
(***************************************************************************)
EXTENDS Pipeline

\* src/prog/ex01.cxx and src/prog/ex02.cxx, and longer chains of chips.
Ex01 == <<"producer", "caller", "consumer", "hello">>
Ex02 == <<"source", "bound", "transducer", "sink">>
OnlyEx01 == {Ex01}
Examples ==
  {Ex01, Ex02,
   <<"source", "transducer", "bound", "transducer", "sink">>,
   <<"source", "bound", "bound", "sink">>}
=============================================================================
