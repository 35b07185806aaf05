---------------------------- MODULE MCGenerateOtas ----------------------------
(* Every command line: either type or both, without variants or with two.  *)
EXTENDS GenerateOtas

MCTypes == {"full", "incremental"}
MCJobLists == {<<"full">>, <<"incremental">>, <<"full", "incremental">>}
MCFullOnly == {<<"full">>}
MCVariantLists == {<<>>, <<"v1", "v2">>}
=============================================================================
