---------------------------- MODULE MCRequests -----------------------------
EXTENDS Requests

\* Mount paths of up to four tokens: with one, no or two slashes, at either end,
\* and with an invalid character.
MCMount == SeqOf({"a", "/", "!"}, 4)

\* Every mount path behind an S3 ARN, another text, a test ARN and nothing; an empty text, texts
\* without "#", with two of them, and some with '=' and line ends in them.
MCArn ==
    {<<"s3", "#">> \o m : m \in MCMount}
    \cup {head \o <<"#">> \o m : head \in {<<>>, <<"x">>, <<"test">>}, m \in SeqOf({"a", "/"}, 3)}
    \cup {<<>>, <<"s3">>, <<"s3", "=", "=", "x", "#", "a", "/", "a">>,
          <<"s3", "#", "a", "/", "a", "#">>, <<"s3", "#", "a", "/", "a", "#", "a">>}
    \cup SeqOf({"x", "=", "newline"}, 4)

=============================================================================
