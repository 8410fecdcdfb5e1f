------------------------------ MODULE MCServer ------------------------------
(* Two requests on one connection, one that closes it, and a bad one.      *)
EXTENDS Server
MCZero == Word("")
Get(path, version, conn) ==
  <<Word("GET"), Word(path), WordEol(version)>>
  \o (IF conn = "" THEN <<>> ELSE <<Word("Connection:"), WordEol(conn)>>) \o <<WordEol("")>>
One(r, a) == [text |-> r, ends |-> <<Len(r)>>, status |-> <<a>>]
Two(r, a, s, b) == [text |-> r \o s, ends |-> <<Len(r), Len(r) + Len(s)>>, status |-> <<a, b>>]
MCScripts ==
  << {Two(Get("/", "HTTP/1.1", ""), 200, <<WordEol("PUT")>>, 400),
      Two(Get("/d", "HTTP/1.0", "Keep-Alive"), 404, Get("/bench", "HTTP/1.0", ""), 404)},
     {One(Get("/", "HTTP/1.0", ""), 200)} >>
F(dir, ext, content) == [dir |-> dir, ext |-> ext, content |-> content]
MCFiles ==
  LET paths == {"public/index.html", "public/d"}
  IN [p \in paths |-> IF p = "public/d" THEN F(TRUE, "", <<>>)
                      ELSE F(FALSE, "html", <<Word("x"), Word("y")>>)]
=============================================================================
