------------------------------- MODULE MCLink -------------------------------
(* Values for the constants of Link: the calls that the commands ports,    *)
(* info, download, upload, set, profile and watch make.                    *)
EXTENDS Link

MCPrograms ==
    {<<>>, <<"version", "read">>, <<"read">>, <<"write">>, <<"read", "write">>, <<"profile">>,
     <<"events on">>}
=============================================================================
