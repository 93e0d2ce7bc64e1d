----------------------------- MODULE MCBackground -----------------------------
EXTENDS Background
===============================================================================
