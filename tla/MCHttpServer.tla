---------------------------- MODULE MCHttpServer ----------------------------
(* A small instance of HttpServer for TLC. *)
EXTENDS HttpServer

MCStrings == STRING

M(endpoint, requires_param, source, rrd_path, spec) ==
    [endpoint |-> endpoint, requires_param |-> requires_param, source |-> source,
     rrd_path |-> rrd_path, spec |-> spec]

Disk   == M(<<"disk">>, TRUE, "rrd", "disk-%", "")
DiskIo == M(<<"disk", "io">>, TRUE, "rrd", "io-%", "")
Cpu    == M(<<"cpu">>, FALSE, "proc", "", "cpu")
Up     == M(<<"up">>, FALSE, "prometheus", "", "http")

\* Two prefixes of one path in both orders, with the two live sources; entries
\* without their fields and one that is no object; what leaves no metrics.
MCFiles ==
    {[text |-> "object", metrics |-> <<Disk, DiskIo>>],
     [text |-> "object", metrics |-> <<DiskIo, Disk, Disk>>],
     [text |-> "object", metrics |-> <<Up, Cpu>>],
     [text |-> "object", metrics |-> <<Cpu>>],
     [text |-> "object",
      metrics |-> <<M(<<>>, FALSE, "rrd", "load", ""), M(<<"load">>, FALSE, "", "load", ""),
                    M(<<"temp">>, FALSE, "file", "", "")>>],
     [text |-> "object", metrics |-> <<NotObject, M(<<"cpu">>, FALSE, "proc", "", "x")>>],
     [text |-> "object", metrics |-> NotArray],
     [text |-> "broken", metrics |-> NotArray]}

MCLeftovers == {Blank, M(<<"disk">>, FALSE, "rrd", "load", "")}
MCTemplates == {"disk-%", "io-%"}
MCRrdFiles  == {<<"disk-%", <<"sda">> >>, <<"disk-%", <<"io", "sda">> >>,
                <<"io-%", <<"sda">> >>, <<"load", <<>> >>}

\* Two samples, one that is not finite, and one of another name of which a cut
\* may leave a third; and a page without any.
Exposition ==
    <<Line(<<"up">>, "1"), Line(<<"up">>, "NaN"), Line(<<"other">>, "5"), Line(<<"up">>, "2")>>
MCPages == {Exposition, <<Unparsed>>}
MCEndings == {<<"up">>}

Get(path, theme) ==
    [method |-> "GET", path |-> path, line |-> "whole", theme |-> theme, body |-> "none",
     targets |-> <<>>]
Query(body, targets) ==
    [Get(<<"_grafana", "query">>, FALSE) EXCEPT !.body = body, !.targets = targets]

MCRequests ==
    {Get(<<"disk", "io", "sda">>, TRUE), Get(<<"disk", "io">>, FALSE), Get(<<"disk", "">>, FALSE),
     Get(<<"disk">>, TRUE), Get(<<>>, FALSE), Get(<<"cpu">>, FALSE), Get(<<"up">>, TRUE),
     Get(<<"load">>, FALSE), Get(<<"temp">>, FALSE),
     Get(<<"_config", "metrics">>, TRUE), Get(<<"_grafana", "search">>, FALSE),
     Query("none", <<>>), Query("bad", <<>>), Query("null", <<>>),
     Query("targets", << <<"disk", "io", "sda">>, <<"none">>, <<"up">>, <<"disk">> >>),
     [Get(<<"cpu">>, FALSE) EXCEPT !.line = "torn"], [Get(<<"cpu">>, FALSE) EXCEPT !.line = "long"],
     [Get(<<>>, FALSE) EXCEPT !.method = "OPTIONS"]}
=============================================================================
