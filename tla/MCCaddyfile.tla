---- MODULE MCCaddyfile ----
(* Instance of Caddyfile: documents of up to MaxLines lines before the braces *)
(* are closed, with every construct, repetitions, empty and missing blocks,   *)
(* and lines that are faulty or stand in the wrong block.                     *)
EXTENDS Caddyfile

MCFirstLines == {<<"lura">>, <<"lura", "{">>, <<"lura", "x", "{">>}

Blocked == {<<"endpoint", "{">>, <<"endpoint", "/a", "{">>, <<"backend", "h", "{">>,
            <<"backend", "{">>, <<"mapping", "{">>}
Plain == {<<"}">>, <<"endpoint", "/b", "/c">>, <<"backend", "h">>, <<"debug_endpoint">>,
          <<"timeout", "1s">>, <<"url_pattern", "/p">>, <<"method", "PUT">>,
          <<"to", "i", "j">>, <<"allow", "f">>, <<"f>g">>, <<"f>h>i", "g>f">>,
          <<"mapping", "to", "k">>}
Faulty == {<<"timeout">>, <<"timeout", "bad">>, <<"timeout", "1s", "{">>,
           <<"method", "GET", "PUT">>, <<"echo_endpoint", "/a", "/b">>,
           <<"mapping", "f>g">>, <<"mapping", "mapping", "{">>, <<"allow", "{">>, <<"f">>}
MCLines == Blocked \cup Plain \cup Faulty

MCParts == "f>g" :> <<"f", "g">> @@ "f>h>i" :> <<"f", "h", "i">> @@ "g>f" :> <<"g", "f">>
====
