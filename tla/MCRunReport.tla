---------------------------- MODULE MCRunReport ----------------------------
EXTENDS RunReport

\* A task that clicks, one that solves a captcha and answers the picture.
Asks == {{"button"}, {"captcha", "reply"}}
\* The ends of a log, which are never cut, are at most twelve items long.
MCWindows == {12, 100}
MCPrefixes == {6, 11, 17, 100}
=============================================================================
