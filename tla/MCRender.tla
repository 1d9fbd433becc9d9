------------------------------ MODULE MCRender ------------------------------
\* A small instance of Render for TLC.
EXTENDS Render
=============================================================================
