---------------------------- MODULE MCRequestLog ----------------------------
(* The packs, the configurations and the requests of a small instance.      *)
EXTENDS RequestLog

MCLevels == {Info, Error}

MCRecords == [level : MCLevels, about : {"request", "other"}]

Rule(name, match, status, type, body) ==
    [name |-> name, match |-> match, status |-> status, type |-> type, body |-> body,
     headerType |-> "", delayed |-> FALSE]

\* Two packs with rules, and two manifests that share one of them.
MCPacks ==
    [gpt |-> [rules |-> <<Rule("gpt", [path_glob |-> <<"**", "gpt.js">>], 0, "", "stub"),
                          Rule("ads", [path_glob |-> <<"", "a", "**">>], 204, "", "")>>,
              members |-> <<>>],
     cmp |-> [rules |-> <<Rule("cmp", [path_glob |-> <<"", "*", "gpt.js">>], 404, "", "")>>,
              members |-> <<>>],
     all |-> [rules |-> <<>>, members |-> <<"gpt", "cmp">>],
     few |-> [rules |-> <<>>, members |-> <<"cmp">>]]

UserRules ==
    <<Rule("beacon", [path_glob |-> <<"", "**", "b", "**">>, method |-> "POST"], 200, "", "own"),
      [Rule("video", [sec_fetch_dest |-> "video", host |-> "h"], 200, "", "own")
          EXCEPT !.headerType = "text"],
      [Rule("slow", [query |-> [q |-> ""]], 304, "json", "own") EXCEPT !.delayed = TRUE],
      Rule("hints", [path_glob |-> <<"", "b">>], 103, "", "own")>>

MCRules == ToSet(UserRules) \cup UNION {ToSet(MCPacks[p].rules) : p \in DOMAIN MCPacks}

Configuration(rules, packs, media, jsonp, logged, limit, level) ==
    [rules |-> rules, packs |-> packs, status |-> 200, beaconStatus |-> 204,
     media |-> media, jsonp |-> jsonp, accessLog |-> logged, logBody |-> TRUE,
     bodyMethods |-> {"POST"}, bodyLimit |-> limit, level |-> level]

MCConfigurations ==
    {Configuration(UserRules, <<"few", "all", "cmp">>, "204", "", TRUE, 3, Info),
     [Configuration(<<>>, <<"gpt", "all">>, "asset", "cb", TRUE, 5, Error)
         EXCEPT !.beaconStatus = 101],
     Configuration(UserRules, <<>>, "204", "cb", FALSE, 2, Info)}

Request(method, path, ext, dest, query) ==
    [method |-> method, host |-> "h", path |-> path, ext |-> ext, dest |-> dest,
     accept |-> {}, query |-> query, headers |-> [x \in {} |-> ""],
     preflight |-> FALSE, type |-> "text", encoded |-> FALSE, body |-> <<>>]

NoQuery == [x \in {} |-> ""]

Gets ==
    {Request("GET", path, ext, dest, NoQuery) :
        path \in {<<"", "gpt.js">>, <<"", "a", "b", "gpt.js">>, <<"", "a">>,
                  <<"", "c", "gpt.js">>, <<"", "b">>},
        ext \in {"js", ""}, dest \in {"", "video"}}
    \cup {Request("GET", <<"">>, "", dest, query) :
            dest \in {"", "font"}, query \in {[q |-> "x"], [cb |-> "callback"]}}
    \cup {Request("BREW", <<"">>, "", "", NoQuery), Request("HEAD", <<"">>, "", "", NoQuery),
          [Request("OPTIONS", <<"", "b">>, "", "", [q |-> "x"]) EXCEPT !.preflight = TRUE]}

Bodies ==
    {<<"text", b>> : b \in {<<"k", "two", "more", "k">>, <<"three", "more", "more", "v">>,
                            <<"four", "more", "more", "more", "h", "k">>,
                            <<"k", "k", "two">>, <<"more", "k", "k", "k">>}}
    \cup {<<"json", b>> : b \in {<<"k", "h">>, <<"k", "s", "v">>, <<"s", "k", "v">>,
                                 <<"k", "h", "k">>, <<"s", "k", "k", "v">>}}
    \cup {<<"form", b>> : b \in {<<"k", "=", "h", "&", "s", "=", "v">>,
                                 <<"%", "h", "h", "=", "v">>, <<"s", "=", "v", "=", "v">>,
                                 <<"s", "=", "%", "h">>}}
    \cup {<<"binary", <<"k">>>>, <<"multipart", <<"k">>>>}

Posts ==
    {[Request("POST", <<"", "a", "b">>, "", "", NoQuery)
         EXCEPT !.type = b[1], !.body = b[2]] : b \in Bodies}

MCRequests == Gets \cup Posts

=============================================================================
