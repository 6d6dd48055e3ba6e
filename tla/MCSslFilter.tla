----------------------------- MODULE MCSslFilter -----------------------------
EXTENDS SslFilter

\* Headers that come alone or with the line that is answered, a last request
\* and the end of the client's side.
MCRecords == {<<"quiet">>, <<"asks">>, <<"quiet", "asks">>, <<"last">>, <<"bye">>}
=============================================================================
